---- MODULE Spec2Model ----
(***************************************************************************)
(* Model of the NSE scanner server (src/server.js): the Semaphore gate,    *)
(* the FnO scan orchestrator runFnoScan with its per-ticker evaluations    *)
(* getCountsForSymbol, the result journal and the triggers (scheduler tick *)
(* and manual /scan routes).                                               *)
(*                                                                         *)
(* The server is one Node.js event loop: a block of JavaScript between two *)
(* awaits runs to completion, so every action below is one such block.     *)
(***************************************************************************)
EXTENDS Integers, Sequences, FiniteSets, TLC

(***************************************************************************)
(* Bounds of the model.                                                    *)
(***************************************************************************)
NumCallers == 4      \* callers of the gate in the Semaphore harness
HarnessMax == 2      \* capacity of the gate in the Semaphore harness
MaxRecords == 2      \* length of a ticker's record list in the evaluation
MaxRuns == 2         \* scan runs started in one behaviour of the server
NumTickers == 3      \* tickers of the universe the upstream lists
GateCapacity == 2    \* capacity of the gate of a run (10 in server.js line 194)
MaxRanked == 12      \* tickers of the universe in the aggregation
MaxAppends == 32     \* results appended to one journal
MaxStored == 2       \* results a journal file holds at the start

Callers == 1..NumCallers

VARIABLES
    gate,       \* harness: one Semaphore instance {max, count, queue}
    cpc,        \* harness: position of every caller around acquire/release
    evalIn,     \* evaluation of one ticker: how its axios request settled
    evalOut,    \* evaluation of one ticker: what getCountsForSymbol resolved with
    rankIn,     \* aggregation: the universe and the array Promise.all resolved with
    rankOut,    \* aggregation: the scanResult built from them (lines 198-232)
    feed,       \* upstream: how the request for each ticker settles
    emailEnabled, \* EMAIL_CONFIG.enabled with a transporter (lines 14-35)
    rpc,        \* run: the await at which the run is suspended
    rcat,       \* run: "fno" for runFnoScan, "losers" for runLosersOHScan
    ufetch,     \* run: how the request for the universe settled (line 125)
    symbols,    \* run: the ticker universe (line 193)
    sem,        \* run: its Semaphore (line 194)
    tpc,        \* run: position of the evaluation of every ticker
    reordered,  \* run: an evaluation settled before that of an earlier ticker
    results,    \* run: the array that Promise.all fills (line 196)
    returned,   \* run: its result object (lines 222, 342, 390), which it returns
    journal,    \* the journal file of every category
    jcall,      \* journal operations: the category, the calls made, the last outcome
    now,        \* the clock: what Date.now() returns, in ms since the epoch
    sched       \* the scheduler: its interval timer, the scans it called, its log

semVars == <<gate, cpc>>
evalVars == <<evalIn, evalOut>>
rankVars == <<rankIn, rankOut>>
envVars == <<feed, emailEnabled>>
runVars == <<rpc, rcat, ufetch, symbols, sem, tpc, reordered, results, returned>>
progVars == <<feed, emailEnabled, rpc, rcat, ufetch, symbols, sem, tpc, reordered,
              results, returned, journal>>
vars == <<gate, cpc, evalIn, evalOut, rankIn, rankOut, feed, emailEnabled, rpc, rcat, ufetch,
          symbols, sem, tpc, reordered, results, returned, journal, jcall, now, sched>>
timeVars == <<now, sched>>

Runs == 1..MaxRuns
Categories == {"fno", "losers"}

(***************************************************************************)
(* class Semaphore (server.js 100-117).  The queue holds the resolve       *)
(* callbacks of the suspended acquire() calls; a callback is identified by *)
(* the caller it resumes.                                                  *)
(***************************************************************************)
Semaphore(max) == [max |-> max, count |-> 0, queue |-> <<>>]

\* faulty variant: off-by-one capacity test
acquireImmediateOffByOne(s) == s.count <= s.max

\* acquire() line 107: the test that lets the caller through at once
acquireImmediate(s) == s.count < s.max

\* faulty variant: the slot is taken without being counted
acquireUncounted(s, who) ==
    IF acquireImmediate(s)
    THEN s
    ELSE [s EXCEPT !.queue = Append(@, who)]

\* acquire() lines 107-108: take a slot, or push the resolver on the queue
acquire(s, who) ==
    IF acquireImmediate(s)
    THEN [s EXCEPT !.count = @ + 1]
    ELSE [s EXCEPT !.queue = Append(@, who)]

\* faulty variant: the slot is freed and no waiter is woken
releaseNoWake(s) == [sem |-> [s EXCEPT !.count = @ - 1], called |-> <<>>]

\* faulty variant: wakes the most recent waiter (pop instead of shift)
releaseLifo(s) ==
    LET dec == [s EXCEPT !.count = @ - 1]
    IN  IF Len(dec.queue) > 0
        THEN [sem    |-> [dec EXCEPT !.count = @ + 1,
                                     !.queue = SubSeq(@, 1, Len(@) - 1)],
              called |-> <<dec.queue[Len(dec.queue)]>>]
        ELSE [sem |-> dec, called |-> <<>>]

\* faulty variant: frees the slot and wakes the waiter, which must contend again
releaseNoHandOff(s) ==
    LET dec == [s EXCEPT !.count = @ - 1]
    IN  IF Len(dec.queue) > 0
        THEN [sem    |-> [dec EXCEPT !.queue = Tail(@)],
              called |-> <<Head(dec.queue)>>]
        ELSE [sem |-> dec, called |-> <<>>]

\* release() lines 111-115: sem is the gate afterwards, called the resolvers
\* that were invoked (line 114), in order
release(s) ==
    LET dec == [s EXCEPT !.count = @ - 1]
    IN  IF Len(dec.queue) > 0
        THEN [sem    |-> [dec EXCEPT !.count = @ + 1, !.queue = Tail(@)],
              called |-> <<Head(dec.queue)>>]
        ELSE [sem |-> dec, called |-> <<>>]

Range(f) == {f[i] : i \in DOMAIN f}


(***************************************************************************)
(* The evaluation of one ticker before it is used.                         *)
(***************************************************************************)
Pending == [pending |-> TRUE]

EvalIdle ==
    /\ evalIn = [symbol |-> "AAA", settled |-> [kind |-> "response", status |-> 200]]
    /\ evalOut = Pending

(***************************************************************************)
(* The aggregation of a run before it is used.                             *)
(***************************************************************************)
RankIdle ==
    /\ rankIn = [universe |-> <<>>, resolved |-> <<>>]
    /\ rankOut = Pending

(***************************************************************************)
(* No operation on a journal was called.                                   *)
(***************************************************************************)
JournalIdle ==
    jcall = [cat |-> "fno", had |-> 0, n |-> 0, op |-> "none", threw |-> FALSE,
             value |-> Pending]

(***************************************************************************)
(* The clock is not read and scheduleScans() was not called.               *)
(***************************************************************************)
NoScheduler == [alive |-> TRUE, ticks |-> 0, calls |-> <<>>, pending |-> 0, logged |-> <<>>]

TimeIdle ==
    /\ now = 0
    /\ sched = NoScheduler

(***************************************************************************)
(* The server after start-up (lines 617-622): no run was started, the      *)
(* journal files do not exist.                                             *)
(***************************************************************************)
NoSemaphore == Semaphore(0)

NoRuns ==
    /\ rpc = [r \in Runs |-> "idle"]
    /\ rcat = [r \in Runs |-> "none"]
    /\ ufetch = [r \in Runs |-> Pending]
    /\ symbols = [r \in Runs |-> <<>>]
    /\ reordered = [r \in Runs |-> FALSE]
    /\ sem = [r \in Runs |-> NoSemaphore]
    /\ tpc = [r \in Runs |-> <<>>]
    /\ results = [r \in Runs |-> <<>>]
    /\ returned = [r \in Runs |-> Pending]

NoJournal == journal = [c \in Categories |-> [exists |-> FALSE]]

ProgIdle ==
    /\ feed = <<>>
    /\ emailEnabled = FALSE
    /\ NoRuns
    /\ NoJournal

(***************************************************************************)
(* Harness for the Semaphore class: any number of rounds of acquire and    *)
(* release by NumCallers callers in every interleaving.  A caller is       *)
(*   idle     outside the gate,                                            *)
(*   waiting  suspended in acquire() on the queue (line 108),              *)
(*   woken    its resolver was called by release(), continuation pending,  *)
(*   holding  past acquire(), release() not yet called.                    *)
(***************************************************************************)
SemIdle ==
    /\ gate = Semaphore(HarnessMax)
    /\ cpc = [c \in Callers |-> "idle"]

InitSem ==
    /\ SemIdle
    /\ TimeIdle
    /\ JournalIdle
    /\ EvalIdle
    /\ RankIdle
    /\ ProgIdle

CallAcquire(c) ==
    /\ cpc[c] = "idle"
    /\ gate' = acquire(gate, c)
    /\ cpc' = [cpc EXCEPT ![c] = IF acquireImmediate(gate) THEN "holding" ELSE "waiting"]
    /\ UNCHANGED <<evalVars, rankVars, jcall, timeVars, progVars>>

\* the continuation of `await new Promise(...)` (line 108) after the resolver ran
ResumeAcquire(c) ==
    /\ cpc[c] = "woken"
    /\ cpc' = [cpc EXCEPT ![c] = "holding"]
    /\ UNCHANGED <<gate, evalVars, rankVars, jcall, timeVars, progVars>>

CallRelease(c) ==
    /\ cpc[c] = "holding"
    /\ gate' = release(gate).sem
    /\ cpc' = [d \in Callers |->
                 IF d = c THEN "idle"
                 ELSE IF d \in Range(release(gate).called) THEN "woken"
                 ELSE cpc[d]]
    /\ UNCHANGED <<evalVars, rankVars, jcall, timeVars, progVars>>

NextSem ==
    \/ \E c \in Callers : CallAcquire(c)
    \/ \E c \in Callers : ResumeAcquire(c)
    \/ \E c \in Callers : CallRelease(c)

SemSpec == InitSem /\ [][NextSem]_vars

(***************************************************************************)
(* JavaScript values.  An object is a record; a property that is absent    *)
(* reads as undefined.  A price is written as the number of hundredths of  *)
(* its decimal literal in the feed.                                        *)
(***************************************************************************)
Null == [isNull |-> TRUE]
IsNull(v) == "isNull" \in DOMAIN v

Has(obj, f) == f \in DOMAIN obj

\* `obj.f || 0` for a numeric property
NumOrZero(obj, f) == IF Has(obj, f) THEN obj[f] ELSE 0

\* `obj.f || ''` and `obj.f !== 'X'` for a string property
StrOrEmpty(obj, f) == IF Has(obj, f) THEN obj[f] ELSE ""

\* String.prototype.includes
includes(str, sub) ==
    \E i \in 1..(Len(str) - Len(sub) + 1) : SubSeq(str, i, i + Len(sub) - 1) = sub

\* String.prototype.toUpperCase on the option sides the feed uses
toUpperCase(str) ==
    CASE str = "ce" -> "CE"
      [] str = "pe" -> "PE"
      [] str = "Ce" -> "CE"
      [] OTHER -> str

\* getTargetExpiry() (server.js 135-137)
getTargetExpiry == "27-Feb-2026"

(***************************************************************************)
(* JavaScript numbers are IEEE 754 doubles: every arithmetic operation     *)
(* returns the double nearest to the exact result, ties to the even        *)
(* significand.  A double is [neg, m, e] with the value (-1)^neg * m * 2^e *)
(* and a significand m of exactly 53 bits, or Zero.  Significands exceed   *)
(* the integers of the model checker, so a natural number is a sequence of *)
(* limbs to the base 2^24, least significant limb first.  Subnormal        *)
(* numbers and overflow lie far outside the range of prices.               *)
(***************************************************************************)
Limb == 16777216

limbAt(a, i) == IF i <= Len(a) THEN a[i] ELSE 0

maxLen(a, b) == IF Len(a) < Len(b) THEN Len(b) ELSE Len(a)

\* index of the most significant limb that is not zero, 0 for the number 0
RECURSIVE topLimb(_, _)
topLimb(a, i) ==
    IF i = 0 THEN 0
    ELSE IF a[i] # 0 THEN i
    ELSE topLimb(a, i - 1)


\* -1, 0 or 1 as a is less than, equal to or greater than b
RECURSIVE bigCmpFrom(_, _, _)
bigCmpFrom(a, b, i) ==
    IF i = 0 THEN 0
    ELSE IF limbAt(a, i) < limbAt(b, i) THEN -1
    ELSE IF limbAt(a, i) > limbAt(b, i) THEN 1
    ELSE bigCmpFrom(a, b, i - 1)

bigCmp(a, b) == bigCmpFrom(a, b, maxLen(a, b))

RECURSIVE bigAddFrom(_, _, _, _, _)
bigAddFrom(a, b, i, carry, acc) ==
    IF i > maxLen(a, b)
    THEN IF carry > 0 THEN Append(acc, carry) ELSE acc
    ELSE LET t == limbAt(a, i) + limbAt(b, i) + carry
         IN  bigAddFrom(a, b, i + 1, t \div Limb, Append(acc, t % Limb))

bigAdd(a, b) == bigAddFrom(a, b, 1, 0, <<>>)

\* a - b for a >= b
RECURSIVE bigSubFrom(_, _, _, _, _)
bigSubFrom(a, b, i, borrow, acc) ==
    IF i > maxLen(a, b) THEN acc
    ELSE LET t == limbAt(a, i) - limbAt(b, i) - borrow
         IN  IF t < 0
             THEN bigSubFrom(a, b, i + 1, 1, Append(acc, t + Limb))
             ELSE bigSubFrom(a, b, i + 1, 0, Append(acc, t))

bigSub(a, b) == bigSubFrom(a, b, 1, 0, <<>>)

\* a * c for a factor c below 128
RECURSIVE bigMulSmallFrom(_, _, _, _, _)
bigMulSmallFrom(a, c, i, carry, acc) ==
    IF i > Len(a)
    THEN IF carry > 0 THEN Append(acc, carry) ELSE acc
    ELSE LET t == a[i] * c + carry
         IN  bigMulSmallFrom(a, c, i + 1, t \div Limb, Append(acc, t % Limb))

bigMulSmall(a, c) == bigMulSmallFrom(a, c, 1, 0, <<>>)

\* a * 2^s
RECURSIVE bigShl(_, _)
bigShl(a, s) ==
    IF s <= 0 THEN a
    ELSE IF s >= 6 THEN bigShl(bigMulSmall(a, 64), s - 6)
    ELSE bigMulSmall(a, 2 ^ s)

RECURSIVE bitLength(_)
bitLength(n) == IF n = 0 THEN 0 ELSE 1 + bitLength(n \div 2)

limbBits(a, t) == IF t = 0 THEN 0 ELSE 24 * (t - 1) + bitLength(a[t])

bigBitLength(a) == limbBits(a, topLimb(a, Len(a)))

\* bit number i of a, bit 0 being the least significant
bigBit(a, i) == (limbAt(a, (i \div 24) + 1) \div (2 ^ (i % 24))) % 2

bigOdd(a) == limbAt(a, 1) % 2 = 1

bigOfInt(n) == <<n % Limb, n \div Limb>>

\* one step of the long division by den: st holds the quotient and the
\* remainder so far, shifted the remainder with the next bit brought down
bigDivStepWith(den, st, shifted) ==
    IF bigCmp(shifted, den) >= 0
    THEN [q |-> bigAdd(bigAdd(st.q, st.q), <<1>>), rem |-> bigSub(shifted, den)]
    ELSE [q |-> bigAdd(st.q, st.q), rem |-> shifted]

\* the step that brings down bit i of num
bigDivStep(num, den, st, i) ==
    bigDivStepWith(den, st, bigAdd(bigAdd(st.rem, st.rem), <<bigBit(num, i)>>))

\* the steps for the bits hi down to lo of num, the upper half of them first;
\* the test on upper has it evaluated before the lower half starts
RECURSIVE bigDivSteps(_, _, _, _, _)
bigDivSteps(num, den, st, hi, lo) ==
    IF hi < lo THEN st
    ELSE IF hi = lo THEN bigDivStep(num, den, st, hi)
    ELSE LET mid == (hi + lo) \div 2
             upper == bigDivSteps(num, den, st, hi, mid + 1)
         IN  IF Len(upper.q) >= 0
             THEN bigDivSteps(num, den, upper, mid, lo)
             ELSE upper

\* quotient and remainder of n / d, with the divisor
bigDivide(n, d) ==
    [qr |-> bigDivSteps(n, d, [q |-> <<>>, rem |-> <<>>], bigBitLength(n) - 1, 0),
     den |-> d, s |-> 0]

\* quotient and remainder of (num * 2^s) / den, s of either sign
bigDivScaled(num, den, s) ==
    [bigDivide(bigShl(num, s), bigShl(den, -s)) EXCEPT !.s = s]

SignificandBits == 53

\* the scaled quotient with 53 bits: the one for s0 has 53 or 54
fitQuotient(num, den, s0, d0) ==
    IF bigBitLength(d0.qr.q) > SignificandBits
    THEN bigDivScaled(num, den, s0 - 1)
    ELSE d0

\* the remainder is above the half of the divisor, or is the half and the
\* quotient is odd
roundsUp(d, half) == half > 0 \/ (half = 0 /\ bigOdd(d.qr.q))

\* [m, e] for the significand m rounded at scale s, which has 53 bits or is 2^53
withSignificand(m, s) ==
    IF bigBitLength(m) > SignificandBits
    THEN [m |-> bigShl(<<1>>, SignificandBits - 1), e |-> 1 - s]
    ELSE [m |-> m, e |-> -s]

roundTiesToEven(d) ==
    withSignificand(IF roundsUp(d, bigCmp(bigAdd(d.qr.rem, d.qr.rem), d.den))
                    THEN bigAdd(d.qr.q, <<1>>)
                    ELSE d.qr.q,
                    d.s)

roundAt(num, den, s0) ==
    roundTiesToEven(fitQuotient(num, den, s0, bigDivScaled(num, den, s0)))

\* the double nearest to num / den for natural numbers num > 0 and den > 0,
\* ties to even: [m, e] with num / den ~ m * 2^e
roundToDouble(num, den) ==
    roundAt(num, den, SignificandBits - (bigBitLength(num) - bigBitLength(den)))

Zero == [zero |-> TRUE]
isZero(x) == "zero" \in DOMAIN x

Double(neg, r, e) == [neg |-> neg, m |-> r.m, e |-> r.e + e]

\* the double that JSON.parse returns for the decimal literal of n hundredths
doubleOfHundredths(n) ==
    IF n = 0 THEN Zero
    ELSE Double(n < 0, roundToDouble(bigOfInt(IF n < 0 THEN -n ELSE n), <<100>>), 0)

\* (neg ? -am : am) - bm at the common exponent e, for bm > 0
minusAligned(neg, am, bm, e, c) ==
    IF ~neg /\ c = 0 THEN Zero
    ELSE Double(neg \/ c < 0,
                roundToDouble(IF neg THEN bigAdd(am, bm)
                              ELSE IF c < 0 THEN bigSub(bm, am)
                              ELSE bigSub(am, bm),
                              <<1>>),
                e)

minusAt(neg, am, bm, e) == minusAligned(neg, am, bm, e, bigCmp(am, bm))

\* the significands of a and b brought to the smaller exponent e
minusWith(a, b, e) == minusAt(a.neg, bigShl(a.m, a.e - e), bigShl(b.m, b.e - e), e)

\* a - b in double arithmetic for b > 0
doubleMinus(a, b) ==
    IF isZero(a) THEN [b EXCEPT !.neg = TRUE]
    ELSE minusWith(a, b, IF a.e < b.e THEN a.e ELSE b.e)

\* a / b in double arithmetic for b > 0
doubleDividedBy(a, b) ==
    IF isZero(a) THEN Zero
    ELSE Double(a.neg, roundToDouble(a.m, b.m), a.e - b.e)

\* a * 100 in double arithmetic
doubleTimes100(a) ==
    IF isZero(a) THEN Zero
    ELSE Double(a.neg, roundToDouble(bigMulSmall(a.m, 100), <<1>>), a.e)

\* the value m * 2^e has its top bit at position top - 1: it is at most 0.5
\* when it is below 0.5 or is 2^(-1) itself
atMostHalf(m, top) ==
    \/ top < 0
    \/ top = 0 /\ bigCmp(m, bigShl(<<1>>, bigBitLength(m) - 1)) = 0

\* |a| <= 0.5
magnitudeAtMostHalf(a) ==
    isZero(a) \/ atMostHalf(a.m, bigBitLength(a.m) + a.e)

\* ((o - p) / p) * 100 (line 144)
pctOf(o, p) == doubleTimes100(doubleDividedBy(doubleMinus(o, p), p))

\* pct >= -0.5 && pct <= 0.5 for pct = ((openPrice - prevClose) / prevClose) * 100
\* (lines 144-145), the prices given in hundredths and prevClose > 0
pctWithinHalf(openPrice, prevClose) ==
    magnitudeAtMostHalf(pctOf(doubleOfHundredths(openPrice), doubleOfHundredths(prevClose)))

\* the (openPrice, prevClose) pairs of the future records of the model, in
\* hundredths, and the outcome of lines 144-145 on each, computed once
GatePrices ==
    { <<10040, 10000>>, <<10100, 10000>>, <<10000, 10000>>, <<10050, 10000>>,
      <<9950, 10000>>, <<1005, 1000>>, <<995, 1000>>, <<10051, 10000>>,
      <<9949, 10000>>, <<-1000, -1000>>, <<500, 0>> }

pctWithinHalfOf ==
    [pr \in {q \in GatePrices : q[2] > 0} |-> pctWithinHalf(pr[1], pr[2])]

\* checkFutstkCondition (server.js 139-146)
checkFutstkCondition(record, targetExpiry) ==
    IF StrOrEmpty(record, "instrumentType") # "FUTSTK"
       \/ StrOrEmpty(record, "expiryDate") # targetExpiry
    THEN FALSE
    ELSE LET openPrice == NumOrZero(record, "openPrice")
             prevClose == NumOrZero(record, "prevClose")
         IN  IF prevClose <= 0 THEN FALSE
             ELSE IF <<openPrice, prevClose>> \in DOMAIN pctWithinHalfOf
             THEN pctWithinHalfOf[<<openPrice, prevClose>>]
             ELSE pctWithinHalf(openPrice, prevClose)

\* records.some(r => checkFutstkCondition(r, targetExpiry)) (line 158): the
\* callback runs on the records in order until one returns true; reading a
\* property of a null record throws a TypeError.
RECURSIVE someFutstk(_, _)
someFutstk(records, targetExpiry) ==
    IF records = <<>> THEN "false"
    ELSE IF IsNull(Head(records)) THEN "throws"
    ELSE IF checkFutstkCondition(Head(records), targetExpiry) THEN "true"
    ELSE someFutstk(Tail(records), targetExpiry)

ZeroCounts == [callOpenLow |-> 0, callOpenHigh |-> 0, putOpenLow |-> 0, putOpenHigh |-> 0]

\* faulty variant: a put that opens at its high is counted with the calls
countRecordCrossed(record, targetExpiry, acc) ==
    IF StrOrEmpty(record, "expiryDate") # targetExpiry THEN acc
    ELSE IF StrOrEmpty(record, "instrumentType") # "OPTSTK" THEN acc
    ELSE LET openPrice == NumOrZero(record, "openPrice")
             optionType == toUpperCase(StrOrEmpty(record, "optionType"))
             eqLow == Has(record, "lowPrice") /\ openPrice = record.lowPrice
             eqHigh == Has(record, "highPrice") /\ openPrice = record.highPrice
         IN  IF openPrice <= 0 THEN acc
             ELSE IF NumOrZero(record, "totalTradedVolume") <= 0 THEN acc
             ELSE IF optionType = "CE"
                  THEN [acc EXCEPT !.callOpenLow = IF eqLow THEN @ + 1 ELSE @,
                                   !.callOpenHigh = IF eqHigh THEN @ + 1 ELSE @]
             ELSE IF optionType = "PE"
                  THEN [acc EXCEPT !.putOpenLow = IF eqLow THEN @ + 1 ELSE @,
                                   !.callOpenHigh = IF eqHigh THEN @ + 1 ELSE @]
             ELSE acc

\* one pass of the loop body (lines 164-176) over a non-null record
countRecord(record, targetExpiry, acc) ==
    IF StrOrEmpty(record, "expiryDate") # targetExpiry THEN acc
    ELSE IF StrOrEmpty(record, "instrumentType") # "OPTSTK" THEN acc
    ELSE LET openPrice == NumOrZero(record, "openPrice")
             optionType == toUpperCase(StrOrEmpty(record, "optionType"))
             eqLow == Has(record, "lowPrice") /\ openPrice = record.lowPrice
             eqHigh == Has(record, "highPrice") /\ openPrice = record.highPrice
         IN  IF openPrice <= 0 THEN acc
             ELSE IF NumOrZero(record, "totalTradedVolume") <= 0 THEN acc
             ELSE IF optionType = "CE"
                  THEN [acc EXCEPT !.callOpenLow = IF eqLow THEN @ + 1 ELSE @,
                                   !.callOpenHigh = IF eqHigh THEN @ + 1 ELSE @]
             ELSE IF optionType = "PE"
                  THEN [acc EXCEPT !.putOpenLow = IF eqLow THEN @ + 1 ELSE @,
                                   !.putOpenHigh = IF eqHigh THEN @ + 1 ELSE @]
             ELSE acc

\* the loop `for (const record of records)` (lines 163-177); threw is set
\* when the loop reads a property of a null record
RECURSIVE countLoop(_, _, _)
countLoop(records, targetExpiry, acc) ==
    IF records = <<>> THEN [threw |-> FALSE, counts |-> acc]
    ELSE IF IsNull(Head(records)) THEN [threw |-> TRUE, counts |-> acc]
    ELSE countLoop(Tail(records), targetExpiry,
                   countRecord(Head(records), targetExpiry, acc))

\* the array [symbol, callOpenLow, callOpenHigh, putOpenLow, putOpenHigh,
\* status] that getCountsForSymbol resolves with; rejected is set when the
\* promise rejects instead
Classification(symbol, counts, status) ==
    [symbol |-> symbol,
     callOpenLow |-> counts.callOpenLow, callOpenHigh |-> counts.callOpenHigh,
     putOpenLow |-> counts.putOpenLow, putOpenHigh |-> counts.putOpenHigh,
     status |-> status, rejected |-> FALSE]

\* faulty variant: the timeout is recognised by another error code
catchClauseOtherCode(symbol, error) ==
    Classification(symbol, ZeroCounts,
        IF StrOrEmpty(error, "code") = "ETIMEDOUT"
        THEN "Timeout"
        ELSE "Error: " \o StrOrEmpty(error, "message"))

\* the catch clause of getCountsForSymbol (lines 179-180)
catchClause(symbol, error) ==
    Classification(symbol, ZeroCounts,
        IF StrOrEmpty(error, "code") = "ECONNABORTED"
        THEN "Timeout"
        ELSE "Error: " \o StrOrEmpty(error, "message"))

\* a JSON value of the upstream body: an array of records, or any other
\* truthy value (a string, an object), which has no method `some`
JsArray(items) == [type |-> "array", items |-> items]
JsOther == [type |-> "other"]

\* `response.data?.data || []` (line 155)
recordsOf(response) ==
    IF ~Has(response, "data") THEN JsArray(<<>>)
    ELSE IF ~Has(response.data, "data") THEN JsArray(<<>>)
    ELSE response.data.data

\* faulty variant: the counters are kept when the gate fails
tryBlockCountsBeforeGate(symbol, settled) ==
    IF settled.kind = "error" THEN catchClause(symbol, settled)
    ELSE IF settled.status # 200
    THEN Classification(symbol, ZeroCounts, "HTTP " \o ToString(settled.status))
    ELSE LET records == recordsOf(settled)
             targetExpiry == getTargetExpiry
         IN  IF records.type # "array"
             THEN catchClause(symbol, [message |-> "records.some is not a function"])
             ELSE LET futstkOk == someFutstk(records.items, targetExpiry)
                      loop == countLoop(records.items, targetExpiry, ZeroCounts)
                  IN  IF futstkOk = "throws"
                      THEN catchClause(symbol,
                              [message |-> "Cannot read properties of null (reading 'instrumentType')"])
                      ELSE IF futstkOk = "false"
                      THEN Classification(symbol, loop.counts, "FUTSTK condition not met")
                      ELSE IF loop.threw
                      THEN catchClause(symbol,
                              [message |-> "Cannot read properties of null (reading 'expiryDate')"])
                      ELSE Classification(symbol, loop.counts, "Success")

\* the try block of getCountsForSymbol (lines 152-178) for a request that
\* settled as `settled`: a response {status, data} or an error {code, message}
tryBlock(symbol, settled) ==
    IF settled.kind = "error" THEN catchClause(symbol, settled)
    ELSE IF settled.status # 200
    THEN Classification(symbol, ZeroCounts, "HTTP " \o ToString(settled.status))
    ELSE LET records == recordsOf(settled)
             targetExpiry == getTargetExpiry
         IN  IF records.type # "array"
             THEN catchClause(symbol, [message |-> "records.some is not a function"])
             ELSE LET futstkOk == someFutstk(records.items, targetExpiry)
                      loop == countLoop(records.items, targetExpiry, ZeroCounts)
                  IN  IF futstkOk = "throws"
                      THEN catchClause(symbol,
                              [message |-> "Cannot read properties of null (reading 'instrumentType')"])
                      ELSE IF futstkOk = "false"
                      THEN Classification(symbol, ZeroCounts, "FUTSTK condition not met")
                      ELSE IF loop.threw
                      THEN catchClause(symbol,
                              [message |-> "Cannot read properties of null (reading 'expiryDate')"])
                      ELSE Classification(symbol, loop.counts, "Success")

\* faulty variant: errors thrown by the request are not caught
getCountsForSymbolNoCatch(symbol, settled) ==
    IF settled.kind = "error"
    THEN [tryBlock(symbol, settled) EXCEPT !.rejected = TRUE]
    ELSE tryBlock(symbol, settled)

\* getCountsForSymbol (lines 148-184) from the settlement of its request to
\* the value its promise resolves with
getCountsForSymbol(symbol, settled) == tryBlock(symbol, settled)

(***************************************************************************)
(* The upstream feed: derivative records and the ways a request settles.   *)
(***************************************************************************)
Future(expiry, openPrice, prevClose) ==
    [instrumentType |-> "FUTSTK", expiryDate |-> expiry,
     openPrice |-> openPrice, prevClose |-> prevClose]

Option(expiry, side, openPrice, lowPrice, highPrice, volume) ==
    [instrumentType |-> "OPTSTK", expiryDate |-> expiry, optionType |-> side,
     openPrice |-> openPrice, lowPrice |-> lowPrice, highPrice |-> highPrice,
     totalTradedVolume |-> volume]

OtherExpiry == "26-Mar-2026"

RecordPool ==
    { Future(getTargetExpiry, 10040, 10000),            \* +0.4 %
      Future(getTargetExpiry, 10100, 10000),            \* +1 %
      Future(getTargetExpiry, 10000, 10000),            \* 0 %
      Future(getTargetExpiry, 10050, 10000),            \* +0.5 % of 100.00
      Future(getTargetExpiry, 9950, 10000),             \* -0.5 % of 100.00
      Future(getTargetExpiry, 1005, 1000),              \* +0.5 % of 10.00
      Future(getTargetExpiry, 995, 1000),               \* -0.5 % of 10.00
      Future(getTargetExpiry, 10051, 10000),            \* +0.51 %
      Future(getTargetExpiry, 9949, 10000),             \* -0.51 %
      Future(getTargetExpiry, -1000, -1000),            \* previous close < 0
      Future(getTargetExpiry, 500, 0),                  \* previous close = 0
      Future(OtherExpiry, 10000, 10000),
      [instrumentType |-> "FUTIDX", expiryDate |-> getTargetExpiry,
       openPrice |-> 10000, prevClose |-> 10000],
      [instrumentType |-> "OPTSTK", expiryDate |-> getTargetExpiry, optionType |-> "CE",
       openPrice |-> 500, lowPrice |-> 400, highPrice |-> 600, prevClose |-> 500,
       totalTradedVolume |-> 10],
      Option(getTargetExpiry, "CE", 500, 500, 650, 10), \* open = low
      Option(getTargetExpiry, "CE", 500, 400, 500, 10), \* open = high
      Option(getTargetExpiry, "PE", 300, 300, 300, 10), \* open = low = high
      Option(getTargetExpiry, "pe", 300, 250, 300, 10),
      Option(getTargetExpiry, "CE", 500, 500, 500, 0),  \* no volume
      Option(getTargetExpiry, "CE", 0, 0, 0, 10),       \* open = 0
      Option(OtherExpiry, "CE", 500, 500, 500, 10),
      [instrumentType |-> "OPTSTK", expiryDate |-> getTargetExpiry,
       optionType |-> "CE", openPrice |-> 500, totalTradedVolume |-> 10],
      Null }

RECURSIVE SeqsUpTo(_, _)
SeqsUpTo(S, n) ==
    IF n = 0 THEN {<<>>}
    ELSE LET shorter == SeqsUpTo(S, n - 1)
         IN  shorter \cup {Append(q, x) : q \in shorter, x \in S}

Response(status, body) == [kind |-> "response", status |-> status, data |-> body]
ResponseNoBody(status) == [kind |-> "response", status |-> status]
RequestError(code, message) == [kind |-> "error", code |-> code, message |-> message]

TimeoutError == RequestError("ECONNABORTED", "timeout of 10000ms exceeded")

\* errors that are not the timeout of the request
OtherErrors ==
    { RequestError("ECONNRESET", "socket hang up"),
      RequestError("ENOTFOUND", "getaddrinfo ENOTFOUND www.nseindia.com"),
      RequestError("ERR_BAD_REQUEST", "Request failed with status code 403"),
      [kind |-> "error", message |-> "Unexpected token < in JSON"] }

Non200 == {204, 403, 404, 500}

Settlements ==
    {Response(200, [data |-> JsArray(q)]) : q \in SeqsUpTo(RecordPool, MaxRecords)}
    \cup {Response(200, [data |-> JsOther]), Response(200, [message |-> "no data"]),
          ResponseNoBody(200)}
    \cup {Response(st, [data |-> JsArray(<<>>)]) : st \in Non200}
    \cup {TimeoutError} \cup OtherErrors

(***************************************************************************)
(* fetchFnoSymbols (server.js 123-133).                                    *)
(***************************************************************************)
\* String.prototype.trim for the blanks the feed uses
RECURSIVE trimStart(_)
trimStart(str) ==
    IF Len(str) > 0 /\ SubSeq(str, 1, 1) = " "
    THEN trimStart(SubSeq(str, 2, Len(str)))
    ELSE str

RECURSIVE trimEnd(_)
trimEnd(str) ==
    IF Len(str) > 0 /\ SubSeq(str, Len(str), Len(str)) = " "
    THEN trimEnd(SubSeq(str, 1, Len(str) - 1))
    ELSE str

trim(str) == trimEnd(trimStart(str))

\* the UTF-16 code units of the characters of ticker names, in ascending order
CodeUnits == " &-0123456789ABCDEFGHIJKLMNOPQRSTUVWXYZ"

codeUnit(ch) == CHOOSE k \in 1..Len(CodeUnits) : SubSeq(CodeUnits, k, k) = ch

\* the default comparison of Array.prototype.sort: strings by code units
RECURSIVE stringLess(_, _)
stringLess(a, b) ==
    IF Len(b) = 0 THEN FALSE
    ELSE IF Len(a) = 0 THEN TRUE
    ELSE LET ca == codeUnit(SubSeq(a, 1, 1))
             cb == codeUnit(SubSeq(b, 1, 1))
         IN  IF ca # cb THEN ca < cb
             ELSE stringLess(SubSeq(a, 2, Len(a)), SubSeq(b, 2, Len(b)))

\* insertion of x into a sorted sequence behind the elements that are not
\* greater: Array.prototype.sort is stable
RECURSIVE insertString(_, _)
insertString(sorted, x) ==
    IF sorted = <<>> THEN <<x>>
    ELSE IF stringLess(x, Head(sorted)) THEN <<x>> \o sorted
    ELSE <<Head(sorted)>> \o insertString(Tail(sorted), x)

RECURSIVE sortStrings(_)
sortStrings(seq) ==
    IF seq = <<>> THEN <<>>
    ELSE insertString(sortStrings(SubSeq(seq, 1, Len(seq) - 1)), seq[Len(seq)])

\* the filter of line 129: an object that is not null with a truthy symbol
rowHasSymbol(row) ==
    /\ ~IsNull(row)
    /\ Has(row, "symbol")
    /\ row.symbol # ""

RECURSIVE symbolsOfRows(_)
symbolsOfRows(rows) ==
    IF rows = <<>> THEN <<>>
    ELSE IF rowHasSymbol(Head(rows))
         THEN <<trim(Head(rows).symbol)>> \o symbolsOfRows(Tail(rows))
         ELSE symbolsOfRows(Tail(rows))

\* `response.data?.data?.UnderlyingList || []` (line 127)
underlyingListOf(response) ==
    IF ~Has(response, "data") THEN <<>>
    ELSE IF ~Has(response.data, "data") THEN <<>>
    ELSE IF ~Has(response.data.data, "UnderlyingList") THEN <<>>
    ELSE response.data.data.UnderlyingList

\* faulty variant: a status other than 200 is not treated as a failure
fetchFnoSymbolsAnyStatus(settled) ==
    IF settled.kind = "error"
    THEN [threw |-> TRUE, symbols |-> <<>>]
    ELSE [threw |-> FALSE,
          symbols |-> sortStrings(symbolsOfRows(underlyingListOf(settled)))]

\* fetchFnoSymbols for a request that settled as `settled`: threw is set
\* when the function rejects (the request failed, or line 126)
fetchFnoSymbols(settled) ==
    IF settled.kind = "error" \/ settled.status # 200
    THEN [threw |-> TRUE, symbols |-> <<>>]
    ELSE [threw |-> FALSE,
          symbols |-> sortStrings(symbolsOfRows(underlyingListOf(settled)))]

(***************************************************************************)
(* The aggregation and ranking of runFnoScan (server.js 198-232).          *)
(***************************************************************************)
RankLimit == 10

\* faulty variant: a timeout is not recognised as a failure
isErrorStatusNoTimeout(status) ==
    includes(status, "HTTP") \/ includes(status, "Error")

\* the test of line 204
isErrorStatus(status) ==
    includes(status, "HTTP") \/ includes(status, "Timeout") \/ includes(status, "Error")

\* faulty variant: the second counters of the two groups are exchanged
RECURSIVE aggregateLoopSwapped(_, _)
aggregateLoopSwapped(resolved, acc) ==
    IF resolved = <<>> THEN acc
    ELSE LET res == Head(resolved)
             next ==
                 IF isErrorStatus(res.status) THEN acc
                 ELSE IF res.status = "Success"
                 THEN [totalScannedSuccessfully |-> acc.totalScannedSuccessfully + 1,
                       stocksMeetingConditions |-> acc.stocksMeetingConditions + 1,
                       group1 |-> Append(acc.group1,
                                    [symbol |-> res.symbol, ceOL |-> res.callOpenLow,
                                     peOH |-> res.callOpenHigh]),
                       group2 |-> Append(acc.group2,
                                    [symbol |-> res.symbol, peOL |-> res.putOpenLow,
                                     ceOH |-> res.putOpenHigh])]
                 ELSE [acc EXCEPT !.totalScannedSuccessfully = @ + 1]
         IN  aggregateLoopSwapped(Tail(resolved), next)

\* faulty variant: totalScannedSuccessfully++ stands in an else branch of the
\* test for Success
RECURSIVE aggregateLoopScannedElse(_, _)
aggregateLoopScannedElse(resolved, acc) ==
    IF resolved = <<>> THEN acc
    ELSE LET res == Head(resolved)
             next ==
                 IF isErrorStatus(res.status) THEN acc
                 ELSE IF res.status = "Success"
                 THEN [totalScannedSuccessfully |-> acc.totalScannedSuccessfully,
                       stocksMeetingConditions |-> acc.stocksMeetingConditions + 1,
                       group1 |-> Append(acc.group1,
                                    [symbol |-> res.symbol, ceOL |-> res.callOpenLow,
                                     peOH |-> res.putOpenHigh]),
                       group2 |-> Append(acc.group2,
                                    [symbol |-> res.symbol, peOL |-> res.putOpenLow,
                                     ceOH |-> res.callOpenHigh])]
                 ELSE [acc EXCEPT !.totalScannedSuccessfully = @ + 1]
         IN  aggregateLoopScannedElse(Tail(resolved), next)

\* the loop of lines 203-211 over the array Promise.all resolved with
RECURSIVE aggregateLoop(_, _)
aggregateLoop(resolved, acc) ==
    IF resolved = <<>> THEN acc
    ELSE LET res == Head(resolved)
             next ==
                 IF isErrorStatus(res.status) THEN acc
                 ELSE IF res.status = "Success"
                 THEN [totalScannedSuccessfully |-> acc.totalScannedSuccessfully + 1,
                       stocksMeetingConditions |-> acc.stocksMeetingConditions + 1,
                       group1 |-> Append(acc.group1,
                                    [symbol |-> res.symbol, ceOL |-> res.callOpenLow,
                                     peOH |-> res.putOpenHigh]),
                       group2 |-> Append(acc.group2,
                                    [symbol |-> res.symbol, peOL |-> res.putOpenLow,
                                     ceOH |-> res.callOpenHigh])]
                 ELSE [acc EXCEPT !.totalScannedSuccessfully = @ + 1]
         IN  aggregateLoop(Tail(resolved), next)

\* faulty variant: an entry is placed before the entries it ties with
RECURSIVE insertDescendingUnstable(_, _, _)
insertDescendingUnstable(sorted, x, key) ==
    IF sorted = <<>> THEN <<x>>
    ELSE IF x[key] >= Head(sorted)[key] THEN <<x>> \o sorted
    ELSE <<Head(sorted)>> \o insertDescendingUnstable(Tail(sorted), x, key)

\* stable insertion for the comparator (a, b) => b[key] - a[key]
RECURSIVE insertDescending(_, _, _)
insertDescending(sorted, x, key) ==
    IF sorted = <<>> THEN <<x>>
    ELSE IF x[key] > Head(sorted)[key] THEN <<x>> \o sorted
    ELSE <<Head(sorted)>> \o insertDescending(Tail(sorted), x, key)

\* faulty variant: the groups are left in the order of the universe
sortDescendingSkipped(seq, key) == seq

\* Array.prototype.sort with the comparator of lines 213-214
RECURSIVE sortDescending(_, _)
sortDescending(seq, key) ==
    IF seq = <<>> THEN <<>>
    ELSE insertDescending(sortDescending(SubSeq(seq, 1, Len(seq) - 1), key),
                          seq[Len(seq)], key)

\* faulty variant: one entry more than asked for
sliceOneMore(seq, n) == SubSeq(seq, 1, IF Len(seq) < n + 1 THEN Len(seq) ELSE n + 1)

\* Array.prototype.slice(0, n)
slice(seq, n) == SubSeq(seq, 1, IF Len(seq) < n THEN Len(seq) ELSE n)

\* the scanResult object of lines 222-232 (without its time-derived fields)
buildScanResult(universe, resolved) ==
    LET acc == aggregateLoop(resolved,
                   [totalScannedSuccessfully |-> 0, stocksMeetingConditions |-> 0,
                    group1 |-> <<>>, group2 |-> <<>>])
    IN  [totalSymbols |-> Len(universe),
         totalScannedSuccessfully |-> acc.totalScannedSuccessfully,
         stocksMeetingConditions |-> acc.stocksMeetingConditions,
         expiry |-> getTargetExpiry,
         bullish |-> slice(sortDescending(acc.group1, "ceOL"), RankLimit),
         bearish |-> slice(sortDescending(acc.group2, "peOL"), RankLimit)]

(***************************************************************************)
(* The journal files (server.js 59-88).  A file is absent or holds a text; *)
(* a text is the JSON of a value or something JSON.parse rejects.          *)
(***************************************************************************)
JournalCap == 30

Missing == [exists |-> FALSE]
FileWith(text) == [exists |-> TRUE, text |-> text]

Unparsable == [valid |-> FALSE]

\* JSON.stringify(value, null, 2) of a value made of arrays, objects,
\* numbers and strings: the text that parses back to the value
JSONstringify(value) == [valid |-> TRUE, value |-> value]

\* JSON.parse: the value, or threw
JSONparse(text) ==
    IF text.valid THEN [threw |-> FALSE, value |-> text.value]
    ELSE [threw |-> TRUE]

\* the JSON value {}
JsObject == [type |-> "object"]

isArray(value) == ~IsNull(value) /\ value.type = "array"

\* faulty variant: the catch clause returns, so that a text that does not
\* parse gives undefined
loadResultsUndefinedOnError(file) ==
    IF ~file.exists THEN JsArray(<<>>)
    ELSE IF JSONparse(file.text).threw THEN Null
    ELSE JSONparse(file.text).value

\* loadResults (lines 63-72): the parsed content whatever it is, and [] for
\* an absent file or a text that does not parse
loadResults(file) ==
    IF file.exists /\ ~JSONparse(file.text).threw
    THEN JSONparse(file.text).value
    ELSE JsArray(<<>>)

\* what fs.writeFileSync (line 76) can do: write the text, fail before the
\* file is opened for writing (EACCES, EROFS: the file is as it was), or fail
\* after it was opened with flag 'w', which truncates it (ENOSPC, EIO: the
\* file holds a proper prefix of the text, which never parses)
Written == "written"
DiskOutcomes == {Written, "refused", "truncated"}

\* saveResults (lines 74-80): the file afterwards; the error of a failed
\* write is logged and swallowed
saveResults(file, all, disk) ==
    CASE disk = Written -> FileWith(JSONstringify(all))
      [] disk = "refused" -> file
      [] disk = "truncated" -> FileWith(Unparsable)

\* faulty variant: the new result is pushed behind the old ones
appendResultAtTail(file, newResult, disk) ==
    LET all == loadResults(file)
    IN  IF ~isArray(all)
        THEN [threw |-> TRUE, file |-> file]
        ELSE LET unshifted == all.items \o <<newResult>>
                 spliced == IF Len(unshifted) > JournalCap
                            THEN SubSeq(unshifted, 1, JournalCap) ELSE unshifted
             IN  [threw |-> FALSE, file |-> saveResults(file, JsArray(spliced), disk),
                  all |-> JsArray(spliced)]

\* faulty variant: the older results are written back without their timestamp
appendResultStripped(file, newResult, disk) ==
    LET all == loadResults(file)
    IN  IF ~isArray(all)
        THEN [threw |-> TRUE, file |-> file]
        ELSE LET unshifted == <<newResult>> \o [i \in 1..Len(all.items) |->
                                                   [id |-> all.items[i].id]]
                 spliced == IF Len(unshifted) > JournalCap
                            THEN SubSeq(unshifted, 1, JournalCap) ELSE unshifted
             IN  [threw |-> FALSE, file |-> saveResults(file, JsArray(spliced), disk),
                  all |-> JsArray(spliced)]

\* appendResult (lines 82-88): the file afterwards and the array returned;
\* threw when `all` has no method unshift (line 84), the file then is
\* untouched
appendResult(file, newResult, disk) ==
    LET all == loadResults(file)
    IN  IF ~isArray(all)
        THEN [threw |-> TRUE, file |-> file]
        ELSE LET unshifted == <<newResult>> \o all.items
                 spliced == IF Len(unshifted) > JournalCap
                            THEN SubSeq(unshifted, 1, JournalCap) ELSE unshifted
             IN  [threw |-> FALSE, file |-> saveResults(file, JsArray(spliced), disk),
                  all |-> JsArray(spliced)]

\* String(r.id) === String(req.params.id) on the ids of the model
RECURSIVE find(_, _)
find(items, id) ==
    IF items = <<>> THEN <<>>
    ELSE IF Head(items).id = id THEN <<Head(items)>>
    ELSE find(Tail(items), id)

\* the handler of GET /api/<category>/download/csv/:id (lines 528-541,
\* 585-598) up to the result it renders: 404 for a miss, 500 when
\* results.find throws
getResult(file, id) ==
    LET all == loadResults(file)
    IN  IF ~isArray(all) THEN [status |-> 500]
        ELSE IF find(all.items, id) = <<>> THEN [status |-> 404]
        ELSE [status |-> 200, result |-> find(all.items, id)[1]]

\* the handler of GET /api/<category>/results (lines 510-517, 567-574)
listResults(file) == loadResults(file)

\* the fields that the clock gives a result (id, lines 223, 343, 391); the
\* record without fields where the clock is not modelled
NoStamp == [f \in {} |-> 0]

\* the object of lines 390-398 for an error thrown inside the try block
errorResult(stamp, message) ==
    stamp @@ [totalFOSecStocks |-> 0, qualifiedStocks |-> 0, stocks |-> <<>>,
              error |-> message]

\* s.f.toFixed(2) throws a TypeError when s has no property f; the
\* properties that the stocks of the model have are numbers
toFixedThrows(s, f) == ~Has(s, f)

\* generateLosersCSV (lines 468-478) and the map of lines 356-358 call
\* toFixed on the prices and the change of the listed stocks;
\* generateFnoCSV (lines 446-466) calls no method of the values it prints
csvThrows(scanResult) ==
    /\ Has(scanResult, "stocks")
    /\ \E i \in 1..Len(scanResult.stocks) :
          \E f \in {"open", "high", "low", "ltp", "change"} :
              toFixedThrows(scanResult.stocks[i], f)

\* the message of the error that the catch clause of runLosersOHScan holds
caughtMessage(appendThrew) ==
    IF appendThrew THEN "all.unshift is not a function"
    ELSE "Cannot read properties of undefined (reading 'toFixed')"

\* the catch clause of runLosersOHScan (lines 380-401) for an error thrown
\* after the request: the error result is appended and returned; the run
\* rejects when that append throws
catchClauseOfLosers(file, caught, disk) ==
    IF appendResult(file, caught, disk).threw
    THEN [rejected |-> TRUE, file |-> file]
    ELSE [rejected |-> FALSE, file |-> appendResult(file, caught, disk).file,
          returned |-> caught]

\* faulty variant: the error result of a failed request is returned without
\* being appended
finishScanErrorNotJournaled(cat, file, scanResult, email, stamp, disks) ==
    LET first == appendResult(file, scanResult, disks[1])
        tryThrew == first.threw \/ (email /\ csvThrows(scanResult))
    IN  IF Has(scanResult, "error")
        THEN [rejected |-> FALSE, file |-> file, returned |-> scanResult]
        ELSE IF cat = "fno"
        THEN IF first.threw
             THEN [rejected |-> TRUE, file |-> file]
             ELSE [rejected |-> FALSE, file |-> first.file, returned |-> scanResult]
        ELSE IF ~tryThrew
        THEN [rejected |-> FALSE, file |-> first.file, returned |-> scanResult]
        ELSE catchClauseOfLosers(first.file,
                                 errorResult(stamp, caughtMessage(first.threw)),
                                 disks[2])

\* a run from its append to its return or to the await of sendEmail.
\* runFnoScan (lines 234-261) rejects when appendResult throws.  In
\* runLosersOHScan (lines 351-401) the append and the rendering of the mail
\* are inside the try block: when one of them throws, the catch clause runs
\* on the file as the try block left it.  scanResult with a field error is
\* the error result of a request that failed: its append is that of the
\* catch clause.  disks are the outcomes of the writes, in order.
finishScan(cat, file, scanResult, email, stamp, disks) ==
    LET first == appendResult(file, scanResult, disks[1])
        tryThrew == first.threw \/ (email /\ csvThrows(scanResult))
    IN  IF cat = "fno" \/ Has(scanResult, "error")
        THEN IF first.threw
             THEN [rejected |-> TRUE, file |-> file]
             ELSE [rejected |-> FALSE, file |-> first.file, returned |-> scanResult]
        ELSE IF ~tryThrew
        THEN [rejected |-> FALSE, file |-> first.file, returned |-> scanResult]
        ELSE catchClauseOfLosers(first.file,
                                 errorResult(stamp, caughtMessage(first.threw)),
                                 disks[2])

\* the entries of a journal file that holds an array
Entries(file) == loadResults(file).items


(***************************************************************************)
(* The upstream as the scan runs see it: the universe listing and, for     *)
(* every ticker, the way its derivative-data request settles.              *)
(***************************************************************************)
TickerPool == <<"AAA", "BBB", "CCC", "DDD", "EEE">>

FutOk == Future(getTargetExpiry, 10040, 10000)
FutOff == Future(getTargetExpiry, 10100, 10000)
CallOL == Option(getTargetExpiry, "CE", 500, 500, 650, 10)
CallOH == Option(getTargetExpiry, "CE", 500, 400, 500, 10)
PutOLH == Option(getTargetExpiry, "PE", 300, 300, 300, 10)

Records(q) == Response(200, [data |-> JsArray(q)])

TwoCalls == Records(<<FutOk, CallOL, CallOL>>)       \* Success 2 0 0 0
CallPut == Records(<<FutOk, CallOL, PutOLH>>)        \* Success 1 0 1 1
CallOnly == Records(<<CallOH, FutOk, CallOL>>)       \* Success 1 1 0 0
NotMet == Records(<<FutOff, CallOL>>)                \* FUTSTK condition not met
NullRecord == Records(<<FutOk, Null>>)               \* TypeError in the loop
NotAnArray == Response(200, [data |-> JsOther])      \* TypeError at some()

\* the feeds of the model: ticker number k settles as the k-th entry
FeedPatterns ==
    { <<CallPut, CallOnly, TwoCalls, NotMet, CallPut>>,
      <<NotAnArray, CallOnly, TimeoutError, Response(404, [data |-> JsArray(<<>>)]),
        NullRecord>> }

Feeds == {[k \in 1..Len(TickerPool) |-> pat[k]] : pat \in FeedPatterns}

tickerNumber(symbol) == CHOOSE k \in 1..Len(TickerPool) : TickerPool[k] = symbol

\* the rows of the universe listing: unsorted, padded, with rows that the
\* filter of line 129 drops
universeRows(n) ==
    <<[symbol |-> ""], Null>>
    \o [k \in 1..n |-> [symbol |-> " " \o TickerPool[n + 1 - k] \o " "]]
    \o <<[name |-> "no symbol"]>>

UniverseSettlements ==
    { Response(200, [data |-> [UnderlyingList |-> universeRows(NumTickers)]]),
      Response(200, [message |-> "no list"]),
      Response(503, [data |-> [UnderlyingList |-> universeRows(NumTickers)]]),
      RequestError("ECONNABORTED", "timeout of 15000ms exceeded") }

(***************************************************************************)
(* Scheduler constants (server.js 405-416).                                *)
(***************************************************************************)
FNO_SCAN_TIMES_IST ==
    { [h |-> 9, m |-> 17], [h |-> 9, m |-> 18], [h |-> 9, m |-> 19],
      [h |-> 9, m |-> 20], [h |-> 9, m |-> 21] }

LOSERS_SCAN_TIME_IST == [h |-> 9, m |-> 31]

\* the values of getISTHoursMinutes() (lines 418-423) at the ticks of the model
TickTimes ==
    { [h |-> 9, m |-> 17, day |-> 3], [h |-> 9, m |-> 18, day |-> 3],
      [h |-> 9, m |-> 31, day |-> 5], [h |-> 9, m |-> 17, day |-> 6],
      [h |-> 9, m |-> 18, day |-> 0], [h |-> 10, m |-> 17, day |-> 1] }


(***************************************************************************)
(* runLosersOHScan (server.js 268-403).                                    *)
(***************************************************************************)
Loser(symbol, series, open, high) ==
    [symbol |-> symbol, series |-> series, open_price |-> open, high_price |-> high,
     low_price |-> open - 100, ltp |-> open - 50, perChange |-> -3, trade_quantity |-> 1000]

\* a stock for which the feed has no last traded price
LoserNoLtp(symbol, open) ==
    [f \in DOMAIN Loser(symbol, "EQ", open, open) \ {"ltp"} |->
        Loser(symbol, "EQ", open, open)[f]]

LosersSettlements ==
    { Response(200, [FOSec |-> [data |-> <<Loser("AAA", "EQ", 5000, 5000),
                                           Loser("BBB", "EQ", 5000, 5100),
                                           Loser("CCC", "BE", 7000, 7000)>>]]),
      Response(200, [FOSec |-> [data |-> <<Loser("AAA", "EQ", 5000, 5000),
                                           LoserNoLtp("DDD", 6000)>>]]),
      Response(200, [message |-> "no FOSec"]),
      [kind |-> "error", code |-> "ERR_BAD_REQUEST",
       message |-> "Request failed with status code 403",
       response |-> [status |-> 403]],
      RequestError("ECONNABORTED", "timeout of 15000ms exceeded") }

\* the property of the feed that each property of a listed stock is read
\* from (lines 327-335)
feedProperty ==
    [symbol |-> "symbol", open |-> "open_price", high |-> "high_price",
     low |-> "low_price", ltp |-> "ltp", change |-> "perChange",
     volume |-> "trade_quantity"]

\* the object of lines 327-335; a property the feed does not have is
\* undefined, which is a property the object does not have
listedStock(stock) ==
    [f \in {g \in DOMAIN feedProperty : Has(stock, feedProperty[g])} |->
        stock[feedProperty[f]]]

RECURSIVE filterLosers(_)
filterLosers(stocks) ==
    IF stocks = <<>> THEN <<>>
    ELSE LET stock == Head(stocks)
         IN  IF stock.series = "EQ" /\ stock.open_price = stock.high_price
             THEN <<listedStock(stock)>> \o filterLosers(Tail(stocks))
             ELSE filterLosers(Tail(stocks))

\* the result of the try block (lines 317-349), or of its catch clause
\* (lines 380-398) when the request fails or the body has no FOSec
losersResult(settled) ==
    IF settled.kind = "error"
    THEN [totalFOSecStocks |-> 0, qualifiedStocks |-> 0, stocks |-> <<>>,
          error |-> IF Has(settled, "response") /\ settled.response.status = 403
                    THEN "Access blocked by NSE" ELSE StrOrEmpty(settled, "message")]
    ELSE IF ~Has(settled, "data")
    THEN [totalFOSecStocks |-> 0, qualifiedStocks |-> 0, stocks |-> <<>>,
          error |-> "Cannot read properties of undefined (reading 'FOSec')"]
    ELSE IF ~Has(settled.data, "FOSec")
    THEN [totalFOSecStocks |-> 0, qualifiedStocks |-> 0, stocks |-> <<>>,
          error |-> "Cannot read properties of undefined (reading 'data')"]
    ELSE LET fosecStocks == IF Has(settled.data.FOSec, "data")
                            THEN settled.data.FOSec.data ELSE <<>>
             filteredStocks == filterLosers(fosecStocks)
         IN  [totalFOSecStocks |-> Len(fosecStocks),
              qualifiedStocks |-> Len(filteredStocks),
              stocks |-> filteredStocks]

(***************************************************************************)
(* The server.  Continuations of promises are microtasks: those that a     *)
(* block makes ready run before the event loop takes the next timer or I/O *)
(* callback, so they belong to the step of that block.                     *)
(***************************************************************************)
Init ==
    /\ SemIdle
    /\ TimeIdle
    /\ JournalIdle
    /\ EvalIdle
    /\ RankIdle
    /\ feed \in Feeds
    /\ emailEnabled \in BOOLEAN
    /\ NoRuns
    /\ NoJournal

Started == {r \in Runs : rpc[r] # "idle"}

\* the calls runFnoScan() / runLosersOHScan() up to their first await (lines
\* 187-191 and 269-310): the k-th call of a behaviour is run k
startRuns(cats) ==
    LET first == Cardinality(Started) + 1
        last == Cardinality(Started) + Len(cats)
    IN  /\ last <= MaxRuns
        /\ rpc' = [r \in Runs |-> IF r \in first..last THEN "warmup" ELSE rpc[r]]
        /\ rcat' = [r \in Runs |-> IF r \in first..last THEN cats[r - first + 1] ELSE rcat[r]]

\* faulty variant: no test of the day of the week
scansCalledAnyDay(t) ==
    LET fnoMatch == \E x \in FNO_SCAN_TIMES_IST : x.h = t.h /\ x.m = t.m
        losersMatch == LOSERS_SCAN_TIME_IST.h = t.h /\ LOSERS_SCAN_TIME_IST.m = t.m
    IN  (IF fnoMatch THEN <<"fno">> ELSE <<>>)
        \o (IF losersMatch THEN <<"losers">> ELSE <<>>)

\* faulty variant: a trigger time that has passed within its hour fires too
scansCalledCatchUp(t) ==
    LET weekday == ~(t.day < 1 \/ t.day > 5)
        fnoMatch == \E x \in FNO_SCAN_TIMES_IST : x.h = t.h /\ x.m <= t.m
        losersMatch == LOSERS_SCAN_TIME_IST.h = t.h /\ LOSERS_SCAN_TIME_IST.m <= t.m
    IN  IF ~weekday THEN <<>>
        ELSE (IF fnoMatch THEN <<"fno">> ELSE <<>>)
             \o (IF losersMatch THEN <<"losers">> ELSE <<>>)

\* the scans that the callback of setInterval calls, in order, when
\* getISTHoursMinutes() returns t (lines 427-441)
scansCalled(t) ==
    LET weekday == ~(t.day < 1 \/ t.day > 5)
        fnoMatch == \E x \in FNO_SCAN_TIMES_IST : x.h = t.h /\ x.m = t.m
        losersMatch == LOSERS_SCAN_TIME_IST.h = t.h /\ LOSERS_SCAN_TIME_IST.m = t.m
    IN  IF ~weekday THEN <<>>
        ELSE (IF fnoMatch THEN <<"fno">> ELSE <<>>)
             \o (IF losersMatch THEN <<"losers">> ELSE <<>>)

\* the callback of setInterval in scheduleScans (lines 426-442)
Tick(t) ==
    LET cats == scansCalled(t)
    IN  /\ startRuns(cats)
        /\ UNCHANGED <<ufetch, symbols, sem, tpc, reordered, results, returned, journal,
                       envVars, semVars, evalVars, rankVars, jcall, timeVars>>

\* the handlers of GET /api/fno/scan and GET /api/losers/scan up to the
\* await of the run (lines 500-502, 557-559)
ManualScan(cat) ==
    /\ startRuns(<<cat>>)
    /\ UNCHANGED <<ufetch, symbols, sem, tpc, reordered, results, returned, journal,
                   envVars, semVars, evalVars, rankVars, jcall, timeVars>>

\* the map of line 195: every getCountsForSymbol runs to `await
\* semaphore.acquire()`; a call that got a slot goes on to issue its request
RECURSIVE fanOut(_, _, _)
fanOut(s, pcs, n) ==
    IF Len(pcs) = n THEN [sem |-> s, tpc |-> pcs]
    ELSE fanOut(acquire(s, Len(pcs) + 1),
                Append(pcs, IF acquireImmediate(s) THEN "inflight" ELSE "waiting"),
                n)

\* faulty variant: the results are collected in the order of completion
settleSlotArrival(resolved, i) ==
    1 + Cardinality({j \in 1..Len(resolved) : resolved[j] # Pending})

\* Promise.all (line 196) keeps the value of task i at index i
settleSlot(resolved, i) == i

\* the state of the promise of Promise.all
promiseAll(resolved) ==
    IF \E j \in 1..Len(resolved) : resolved[j] # Pending /\ resolved[j].rejected
    THEN "rejected"
    ELSE IF \A j \in 1..Len(resolved) : resolved[j] # Pending
    THEN "fulfilled"
    ELSE "pending"

\* runFnoScan from the fan-in to its return (lines 198-261) when Promise.all
\* has settled; otherwise the run stays suspended at line 196
fanIn(r, universe, resolved) ==
    LET scanResult == buildScanResult(universe, resolved)
        finish == finishScan("fno", journal["fno"], scanResult, emailEnabled, NoStamp,
                            <<Written, Written>>)
    IN  CASE promiseAll(resolved) = "pending" ->
               [pc |-> "fanout", returned |-> Pending, journal |-> journal]
          [] promiseAll(resolved) = "rejected" \/ finish.rejected ->
               [pc |-> "rejected", returned |-> Pending, journal |-> journal]
          [] OTHER ->
               [pc |-> IF emailEnabled THEN "email" ELSE "returned",
                returned |-> finish.returned,
                journal |-> [journal EXCEPT !["fno"] = finish.file]]

\* the warm-up request settles (lines 191, 309-315); its failure is ignored
WarmupSettled(r, ok) ==
    /\ rpc[r] = "warmup"
    /\ rpc' = [rpc EXCEPT ![r] = IF rcat[r] = "fno" THEN "universe"
                                  ELSE IF ok THEN "delay" ELSE "fetch"]
    /\ UNCHANGED <<rcat, ufetch, symbols, sem, tpc, reordered, results, returned,
                   journal, envVars, semVars, evalVars, rankVars, jcall, timeVars>>

\* the universe request settles: fetchFnoSymbols returns or throws, and on
\* return the run fans out (lines 193-196)
UniverseSettled(r, settled) ==
    /\ rpc[r] = "universe"
    /\ ufetch' = [ufetch EXCEPT ![r] = settled]
    /\ LET fetched == fetchFnoSymbols(settled)
           n == Len(fetched.symbols)
           out == fanOut(Semaphore(GateCapacity), <<>>, n)
           pendingAll == [j \in 1..n |-> Pending]
           after == fanIn(r, fetched.symbols, pendingAll)
       IN  IF fetched.threw
           THEN /\ rpc' = [rpc EXCEPT ![r] = "rejected"]
                /\ UNCHANGED <<symbols, sem, tpc, results, returned, journal>>
           ELSE /\ symbols' = [symbols EXCEPT ![r] = fetched.symbols]
                /\ sem' = [sem EXCEPT ![r] = out.sem]
                /\ tpc' = [tpc EXCEPT ![r] = out.tpc]
                /\ results' = [results EXCEPT ![r] = pendingAll]
                /\ rpc' = [rpc EXCEPT ![r] = after.pc]
                /\ returned' = [returned EXCEPT ![r] = after.returned]
                /\ journal' = after.journal
    /\ UNCHANGED <<rcat, reordered, envVars, semVars, evalVars, rankVars, jcall, timeVars>>

\* faulty variant: the request of a ticker that failed is issued again
afterRequestRetry(outcome) ==
    IF isErrorStatus(outcome.status) THEN "inflight" ELSE "done"

\* where the evaluation of a ticker stands once its request has settled:
\* every path of lines 152-180 is a return, none issues the request again
afterRequest(outcome) == "done"

\* faulty variant: release() is the last statement of the try block, not a
\* finally clause, so the returns inside the try block and the catch clause
\* leave without it
releaseSlotAtEndOfTry(s, outcome) ==
    IF outcome.status = "Success" THEN release(s) ELSE [sem |-> s, called |-> <<>>]

\* the finally clause of getCountsForSymbol (lines 181-183): release() runs
\* on every way out of the try block
releaseSlot(s, outcome) == release(s)

\* the request of ticker i settles: getCountsForSymbol finishes (lines
\* 152-183), release() lets the head waiter issue its request, and when this
\* was the last evaluation the run goes on behind Promise.all
TaskSettled(r, i) ==
    /\ i \in 1..Len(tpc[r])
    /\ tpc[r][i] = "inflight"
    /\ LET outcome == getCountsForSymbol(symbols[r][i], feed[tickerNumber(symbols[r][i])])
           rel == releaseSlot(sem[r], outcome)
           resolved == [results[r] EXCEPT ![settleSlot(results[r], i)] = outcome]
           after == fanIn(r, symbols[r], resolved)
       IN  /\ sem' = [sem EXCEPT ![r] = rel.sem]
           /\ tpc' = [tpc EXCEPT ![r] =
                        [j \in 1..Len(tpc[r]) |->
                            IF j = i THEN afterRequest(outcome)
                            ELSE IF j \in Range(rel.called) THEN "inflight"
                            ELSE tpc[r][j]]]
           /\ results' = [results EXCEPT ![r] = resolved]
           /\ reordered' = [reordered EXCEPT ![r] =
                                @ \/ \E j \in 1..(i - 1) : tpc[r][j] # "done"]
           /\ IF rpc[r] = "fanout"
              THEN /\ rpc' = [rpc EXCEPT ![r] = after.pc]
                   /\ returned' = [returned EXCEPT ![r] = after.returned]
                   /\ journal' = after.journal
              ELSE UNCHANGED <<rpc, returned, journal>>
    /\ UNCHANGED <<rcat, ufetch, symbols, envVars, semVars, evalVars, rankVars, jcall, timeVars>>

\* the delay of line 312 elapses
DelayElapsed(r) ==
    /\ rpc[r] = "delay"
    /\ rpc' = [rpc EXCEPT ![r] = "fetch"]
    /\ UNCHANGED <<rcat, ufetch, symbols, sem, tpc, reordered, results, returned,
                   journal, envVars, semVars, evalVars, rankVars, jcall, timeVars>>

\* the losers request settles (lines 319-402): the result, or the error
\* result, is appended to the journal
LosersSettled(r, settled) ==
    /\ rpc[r] = "fetch"
    /\ LET res == losersResult(settled)
           finish == finishScan("losers", journal["losers"], res, emailEnabled, NoStamp,
                               <<Written, Written>>)
       IN  IF finish.rejected
           THEN /\ rpc' = [rpc EXCEPT ![r] = "rejected"]
                /\ UNCHANGED <<returned, journal>>
           ELSE /\ journal' = [journal EXCEPT !["losers"] = finish.file]
                /\ returned' = [returned EXCEPT ![r] = finish.returned]
                /\ rpc' = [rpc EXCEPT ![r] =
                             IF emailEnabled /\ ~Has(finish.returned, "error")
                             THEN "email" ELSE "returned"]
    /\ UNCHANGED <<rcat, ufetch, symbols, sem, tpc, reordered, results, envVars,
                   semVars, evalVars, rankVars, jcall, timeVars>>

\* sendEmail settles (lines 251, 369); it never rejects (lines 40-56)
EmailSettled(r) ==
    /\ rpc[r] = "email"
    /\ rpc' = [rpc EXCEPT ![r] = "returned"]
    /\ UNCHANGED <<rcat, ufetch, symbols, sem, tpc, reordered, results, returned,
                   journal, envVars, semVars, evalVars, rankVars, jcall, timeVars>>

Next ==
    \/ \E t \in TickTimes : Tick(t)
    \/ \E cat \in Categories : ManualScan(cat)
    \/ \E r \in Runs, ok \in BOOLEAN : WarmupSettled(r, ok)
    \/ \E r \in Runs, settled \in UniverseSettlements : UniverseSettled(r, settled)
    \/ \E r \in Runs, i \in 1..NumTickers : TaskSettled(r, i)
    \/ \E r \in Runs : DelayElapsed(r)
    \/ \E r \in Runs, settled \in LosersSettlements : LosersSettled(r, settled)
    \/ \E r \in Runs : EmailSettled(r)

Spec == Init /\ [][Next]_vars


(***************************************************************************)
(* Evaluation of one ticker on every settlement of its request.            *)
(***************************************************************************)
InitEval ==
    /\ SemIdle
    /\ TimeIdle
    /\ JournalIdle
    /\ RankIdle
    /\ ProgIdle
    /\ evalIn \in [symbol : {"AAA"}, settled : Settlements]
    /\ evalOut = Pending

Evaluate ==
    /\ evalOut = Pending
    /\ evalOut' = getCountsForSymbol(evalIn.symbol, evalIn.settled)
    /\ UNCHANGED <<evalIn, rankVars, jcall, timeVars, semVars, progVars>>

NextEval == Evaluate

EvalSpec == InitEval /\ [][NextEval]_vars

(***************************************************************************)
(* Aggregation and ranking of one run (server.js 198-232) on the array     *)
(* that Promise.all resolved with.  The universe is sorted, as             *)
(* fetchFnoSymbols returns it; ticker k settles as entry number            *)
(* (a * k + b) of RankSettlements, counted cyclically.                     *)
(***************************************************************************)
RankTickers ==
    <<"AARTI", "ABB", "ACC", "BEL", "BHEL", "CIPLA", "DLF", "GAIL", "HAL", "IOC",
      "ITC", "LT", "MRF", "NTPC", "SAIL", "TCS">>

PutOH == Option(getTargetExpiry, "PE", 300, 250, 300, 10)

TwoPuts == Records(<<FutOk, PutOLH, PutOH>>)          \* Success 0 0 1 2

RankSettlements ==
    <<TwoCalls, NotMet, CallOnly, TimeoutError, CallPut,
      Response(500, [data |-> JsArray(<<>>)]), TwoPuts, NotAnArray>>

rankSettlement(a, b, k) == RankSettlements[((a * k + b) % Len(RankSettlements)) + 1]

RankInputs ==
    { [universe |-> SubSeq(RankTickers, 1, n),
       resolved |-> [k \in 1..n |->
                        getCountsForSymbol(RankTickers[k], rankSettlement(a, b, k))]] :
          n \in 0..MaxRanked,
          a \in 0..(Len(RankSettlements) - 1),
          b \in 0..(Len(RankSettlements) - 1) }

InitRank ==
    /\ SemIdle
    /\ TimeIdle
    /\ JournalIdle
    /\ EvalIdle
    /\ ProgIdle
    /\ rankIn \in RankInputs
    /\ rankOut = Pending

Aggregate ==
    /\ rankOut = Pending
    /\ rankOut' = buildScanResult(rankIn.universe, rankIn.resolved)
    /\ UNCHANGED <<rankIn, semVars, evalVars, progVars, jcall, timeVars>>

NextRank == Aggregate

RankSpec == InitRank /\ [][NextRank]_vars

(***************************************************************************)
(* The journal of one category under any sequence of its operations, from  *)
(* every kind of file found at the start.  The n-th result appended has    *)
(* the id n; the results found in the file have the ids 0, -1, ...         *)
(***************************************************************************)
StoredResult(id) == [id |-> id, scanTimestamp |-> "2026-02-02 09:17:00 IST"]

InitialStores ==
    { Missing,
      FileWith(Unparsable),
      FileWith(JSONstringify(JsObject)),
      FileWith(JSONstringify(Null)) }
    \cup { FileWith(JSONstringify(JsArray([i \in 1..k |-> StoredResult(1 - i)]))) :
             k \in 0..MaxStored }

InitJournal ==
    /\ SemIdle
    /\ TimeIdle
    /\ EvalIdle
    /\ RankIdle
    /\ feed = <<>>
    /\ emailEnabled = FALSE
    /\ NoRuns
    /\ \E c \in Categories, file \in InitialStores :
          /\ journal = [x \in Categories |-> IF x = c THEN file ELSE Missing]
          /\ jcall = [cat |-> c,
                      had |-> IF isArray(loadResults(file)) THEN Len(Entries(file)) ELSE 0,
                      n |-> 0, op |-> "none", threw |-> FALSE, value |-> Pending]

\* a call of appendResult with the next result
CallAppend ==
    /\ jcall.n < MaxAppends
    /\ LET app == appendResult(journal[jcall.cat], StoredResult(jcall.n + 1), Written)
       IN  /\ journal' = [journal EXCEPT ![jcall.cat] = app.file]
           /\ jcall' = [jcall EXCEPT !.op = "append",
                                     !.n = IF app.threw THEN @ ELSE @ + 1,
                                     !.threw = app.threw,
                                     !.value = IF app.threw THEN Pending ELSE app.all]
    /\ UNCHANGED <<semVars, evalVars, rankVars, timeVars, envVars, runVars>>

\* a scan run reaches its append with the next result
CallScan ==
    /\ jcall.n < MaxAppends
    /\ LET finish == finishScan(jcall.cat, journal[jcall.cat], StoredResult(jcall.n + 1),
                                emailEnabled, NoStamp, <<Written, Written>>)
       IN  /\ journal' = [journal EXCEPT ![jcall.cat] = finish.file]
           /\ jcall' = [jcall EXCEPT !.op = "scan",
                                     !.n = IF finish.rejected THEN @ ELSE @ + 1,
                                     !.threw = finish.rejected,
                                     !.value = IF finish.rejected THEN Pending
                                               ELSE finish.returned]
    /\ UNCHANGED <<semVars, evalVars, rankVars, timeVars, envVars, runVars>>

\* GET /api/<category>/results
CallList ==
    /\ jcall' = [jcall EXCEPT !.op = "list", !.threw = FALSE,
                              !.value = listResults(journal[jcall.cat])]
    /\ UNCHANGED <<semVars, evalVars, rankVars, timeVars, progVars>>

\* GET /api/<category>/download/csv/:id
CallGet(id) ==
    /\ jcall' = [jcall EXCEPT !.op = "get",
                              !.threw = getResult(journal[jcall.cat], id).status = 500,
                              !.value = getResult(journal[jcall.cat], id)]
    /\ UNCHANGED <<semVars, evalVars, rankVars, timeVars, progVars>>

\* the ids asked for: that of the first result appended, and one that no
\* result has
GetIds == {1, MaxAppends + 1}

\* String(id) (lines 531, 588) for the ids of the model: the decimal digits
Digits == <<"0", "1", "2", "3", "4", "5", "6", "7", "8", "9">>

RECURSIVE decimal(_)
decimal(n) == IF n < 10 THEN Digits[n + 1] ELSE decimal(n \div 10) \o Digits[(n % 10) + 1]

String(n) == IF n < 0 THEN "-" \o decimal(-n) ELSE decimal(n)

\* the GET routes of a category in the order of their registration (lines
\* 500-554, 557-611), each path by its segments behind /api/<category>
RoutesInOrder ==
    << [path |-> <<"scan">>, handler |-> "scan"],
       [path |-> <<"results">>, handler |-> "results"],
       [path |-> <<"results", "latest">>, handler |-> "results/latest"],
       [path |-> <<"download", "csv", ":id">>, handler |-> "download/csv/:id"],
       [path |-> <<"download", "csv", "all">>, handler |-> "download/csv/all"] >>

\* a route of the express router matches a path when it has as many segments
\* and each is the segment of the path or a parameter, which takes any
matchesRoute(route, path) ==
    /\ Len(route.path) = Len(path)
    /\ \A k \in 1..Len(path) : route.path[k] = path[k] \/ route.path[k] = ":id"

\* the router calls the handler of the first route registered that matches;
\* no handler of these routes calls next()
dispatch(routes, path) ==
    LET matching == {k \in 1..Len(routes) : matchesRoute(routes[k], path)}
    IN  IF matching = {} THEN "none"
        ELSE routes[CHOOSE k \in matching : \A j \in matching : k <= j].handler

\* the handler of GET download/csv/:id (lines 528-541, 585-598) for the
\* parameter as the router passes it, a string
csvById(file, param) ==
    LET all == loadResults(file)
    IN  IF ~isArray(all) THEN [status |-> 500]
        ELSE LET hits == {i \in 1..Len(all.items) : String(all.items[i].id) = param}
             IN  IF hits = {} THEN [status |-> 404, error |-> "Scan not found"]
                 ELSE [status |-> 200,
                       results |-> <<all.items[CHOOSE i \in hits : \A j \in hits : i <= j]>>]

\* the handler of GET download/csv/all (lines 543-554, 600-611): the CSV of
\* every result of the journal, here the results it prints in their order
csvAll(file) ==
    LET all == loadResults(file)
    IN  IF ~isArray(all) THEN [status |-> 500]
        ELSE IF Len(all.items) = 0 THEN [status |-> 404, error |-> "No results"]
        ELSE [status |-> 200, results |-> all.items]

\* the response to GET /api/<category>/download/csv/<param>
download(file, param) ==
    LET handler == dispatch(RoutesInOrder, <<"download", "csv", param>>)
    IN  [handler |-> handler]
        @@ (IF handler = "download/csv/all" THEN csvAll(file) ELSE csvById(file, param))

\* what is asked for: all results, and the first result appended
DownloadParams == {"all", String(1)}

\* GET /api/<category>/download/csv/<param>
CallDownload(param) ==
    /\ jcall' = [jcall EXCEPT !.op = "download",
                              !.threw = download(journal[jcall.cat], param).status = 500,
                              !.value = download(journal[jcall.cat], param)]
    /\ UNCHANGED <<semVars, evalVars, rankVars, timeVars, progVars>>

NextJournal ==
    \/ CallAppend
    \/ CallScan
    \/ CallList
    \/ \E id \in GetIds : CallGet(id)
    \/ \E param \in DownloadParams : CallDownload(param)

JournalSpec == InitJournal /\ [][NextJournal]_vars

(***************************************************************************)
(* One call of runFnoScan from its first await to its return, on every     *)
(* feed of ScanFeeds, with the journal file as a server may have left it:  *)
(* absent, cut short by a failed write, or holding results.                *)
(***************************************************************************)
ScanFeedPatterns ==
    FeedPatterns
    \cup { <<NotMet, Response(404, [data |-> JsArray(<<>>)]), CallPut, TimeoutError,
             NotAnArray>>,
           <<TimeoutError, TimeoutError, TimeoutError, TimeoutError, TimeoutError>> }

ScanFeeds == {[k \in 1..Len(TickerPool) |-> pat[k]] : pat \in ScanFeedPatterns}

ServerStores ==
    { Missing, FileWith(Unparsable), FileWith(JSONstringify(JsArray(<<StoredResult(0)>>))) }

InitScan ==
    /\ SemIdle
    /\ TimeIdle
    /\ JournalIdle
    /\ EvalIdle
    /\ RankIdle
    /\ feed \in ScanFeeds
    /\ emailEnabled \in BOOLEAN
    /\ rpc = [r \in Runs |-> IF r = 1 THEN "warmup" ELSE "idle"]
    /\ rcat = [r \in Runs |-> IF r = 1 THEN "fno" ELSE "none"]
    /\ ufetch = [r \in Runs |-> Pending]
    /\ symbols = [r \in Runs |-> <<>>]
    /\ reordered = [r \in Runs |-> FALSE]
    /\ sem = [r \in Runs |-> NoSemaphore]
    /\ tpc = [r \in Runs |-> <<>>]
    /\ results = [r \in Runs |-> <<>>]
    /\ returned = [r \in Runs |-> Pending]
    /\ \E file \in ServerStores :
          journal = [c \in Categories |-> IF c = "fno" THEN file ELSE Missing]

NextScan ==
    \/ \E ok \in BOOLEAN : WarmupSettled(1, ok)
    \/ \E settled \in UniverseSettlements : UniverseSettled(1, settled)
    \/ \E i \in 1..NumTickers : TaskSettled(1, i)
    \/ EmailSettled(1)

ScanSpec == InitScan /\ [][NextScan]_vars

\* the requests for the warm-up page and for the universe settle (timeouts
\* of lines 191 and 125), and so does sendEmail
FairScanSpec ==
    /\ ScanSpec
    /\ WF_vars(\E ok \in BOOLEAN : WarmupSettled(1, ok))
    /\ WF_vars(\E settled \in UniverseSettlements : UniverseSettled(1, settled))
    /\ WF_vars(EmailSettled(1))

(***************************************************************************)
(* The last block of a run (runFnoScan lines 222-261, runLosersOHScan      *)
(* lines 342-401) under a clock and a disk that may fail.  The blocks of   *)
(* the runs of one category run one after another, each in one go up to    *)
(* its return or its await of sendEmail; Date.now() counts milliseconds,   *)
(* so that a block may start in the millisecond in which the block before  *)
(* it ran, and the catch clause of a block may read the clock in the       *)
(* millisecond in which its try block did, or in the next one.             *)
(***************************************************************************)
MaxFinishes == 3     \* runs that reach their last block
MaxClock == 3        \* milliseconds that pass

\* the id of a result (lines 223, 343, 391)
Stamp(t) == [id |-> t]

\* what the runs of a category hold when they reach their last block
FinishContents(cat) ==
    IF cat = "fno"
    THEN { [stocksMeetingConditions |-> 0] }
    ELSE { [stocks |-> <<listedStock(Loser("AAA", "EQ", 5000, 5000))>>],
           [stocks |-> <<listedStock(LoserNoLtp("DDD", 6000))>>] }

InitFinish ==
    /\ SemIdle
    /\ EvalIdle
    /\ RankIdle
    /\ feed = <<>>
    /\ emailEnabled \in BOOLEAN
    /\ NoRuns
    /\ now = 1
    /\ sched = NoScheduler
    /\ \E c \in Categories, file \in InitialStores :
          /\ journal = [x \in Categories |-> IF x = c THEN file ELSE Missing]
          /\ jcall = [cat |-> c,
                      had |-> IF isArray(loadResults(file)) THEN Len(Entries(file)) ELSE 0,
                      n |-> 0, op |-> "none", threw |-> FALSE, value |-> Pending]

\* a millisecond passes between two blocks
ClockAdvance ==
    /\ now < MaxClock
    /\ now' = now + 1
    /\ UNCHANGED <<semVars, evalVars, rankVars, progVars, jcall, sched>>

\* the last block of a run of the category: content is what the run found,
\* disks are the outcomes of the writes of the block, later is the reading
\* of the clock in its catch clause
FinishRun(content, disks, later) ==
    /\ jcall.n < MaxFinishes
    /\ LET finish == finishScan(jcall.cat, journal[jcall.cat], Stamp(now) @@ content,
                                emailEnabled, Stamp(later), disks)
       IN  /\ journal' = [journal EXCEPT ![jcall.cat] = finish.file]
           /\ jcall' = [jcall EXCEPT !.op = "scan",
                                     !.n = @ + 1,
                                     !.threw = finish.rejected,
                                     !.value = IF finish.rejected THEN Pending
                                               ELSE finish.returned]
    /\ now' = later
    /\ UNCHANGED <<semVars, evalVars, rankVars, envVars, runVars, sched>>

NextFinish ==
    \/ ClockAdvance
    \/ \E content \in FinishContents(jcall.cat),
          disks \in DiskOutcomes \X DiskOutcomes,
          later \in {now, now + 1} :
            FinishRun(content, disks, later)

FinishSpec == InitFinish /\ [][NextFinish]_vars

(***************************************************************************)
(* scheduleScans (server.js 425-448) under a clock.  The callback of       *)
(* setInterval runs when at least checkInterval milliseconds have passed   *)
(* since it ran last: it is late by the time for which the event loop was  *)
(* busy or the process was suspended.  sched holds                         *)
(*   alive    the process runs,                                            *)
(*   ticks    how often the callback ran,                                  *)
(*   calls    the scans it called, with the clock reading of the callback, *)
(*   pending  how many of their promises are not settled,                  *)
(*   logged   the times at which the handler given to .catch ran.          *)
(* A scan that the callback called settles at any time later: fulfilled,   *)
(* or rejected (the run of a category whose journal file holds no array).  *)
(***************************************************************************)
MaxTicks == 8        \* how often the callback of setInterval runs

istOffset == 19800000
checkInterval == 60000

\* getISTHoursMinutes (lines 418-423) when new Date() is t; the epoch was a
\* Thursday
getISTHoursMinutes(t) ==
    LET ist == t + istOffset
    IN  [h |-> (ist \div 3600000) % 24, m |-> (ist \div 60000) % 60,
         day |-> (4 + (ist \div 86400000)) % 7]

\* the clock at h:m:s IST on a day of January 1970
istTime(dayOfMonth, h, m, s) ==
    (dayOfMonth - 1) * 86400000 + h * 3600000 + m * 60000 + s * 1000 - istOffset

\* the times at which scheduleScans() is called: a Friday, a Saturday and a
\* Sunday morning
SchedStarts ==
    { istTime(2, 9, 15, 10), istTime(2, 9, 19, 10), istTime(3, 9, 16, 10),
      istTime(4, 9, 29, 10) }

\* by how much the callback is late
Drifts == {0, 59000}

InitSched ==
    /\ SemIdle
    /\ JournalIdle
    /\ EvalIdle
    /\ RankIdle
    /\ ProgIdle
    /\ now \in SchedStarts
    /\ sched = NoScheduler

\* faulty variant: the scans are called without .catch, the rejection is
\* unhandled and ends the process
afterRejectionUnhandled(s, t) == [s EXCEPT !.alive = FALSE]

\* the handlers of lines 434 and 440: the error is logged
afterRejection(s, t) == [s EXCEPT !.logged = Append(@, t)]

\* the callback of setInterval (lines 426-442) runs, late by drift
TimerFires(drift) ==
    /\ sched.alive
    /\ sched.ticks < MaxTicks
    /\ now' = now + checkInterval + drift
    /\ LET cats == scansCalled(getISTHoursMinutes(now'))
       IN  sched' = [sched EXCEPT
                       !.ticks = @ + 1,
                       !.calls = @ \o [i \in 1..Len(cats) |-> [cat |-> cats[i], at |-> now']],
                       !.pending = @ + Len(cats)]
    /\ UNCHANGED <<semVars, evalVars, rankVars, progVars, jcall>>

\* the promise of a scan that the callback called settles
RunSettles(outcome) ==
    /\ sched.alive
    /\ sched.pending > 0
    /\ sched' = IF outcome = "rejected"
                THEN afterRejection([sched EXCEPT !.pending = @ - 1], now)
                ELSE [sched EXCEPT !.pending = @ - 1]
    /\ UNCHANGED <<semVars, evalVars, rankVars, progVars, jcall, now>>

NextSched ==
    \/ \E drift \in Drifts : TimerFires(drift)
    \/ \E outcome \in {"fulfilled", "rejected"} : RunSettles(outcome)

SchedSpec == InitSched /\ [][NextSched]_vars

(***************************************************************************)
(* Properties of the Semaphore class, checked under SemSpec.               *)
(***************************************************************************)
HarnessIn(st) == {c \in Callers : cpc[c] = st}

\* the callers that own a slot: handed one by release() or past acquire()
HarnessOwners == HarnessIn("holding") \cup HarnessIn("woken")

\* the steps of the harness, recognised from the callers' positions
AcquireStep(c) == cpc[c] = "idle" /\ cpc'[c] # "idle"
ReleaseStep(c) == cpc[c] = "holding" /\ cpc'[c] = "idle"
LeavesQueue(c) == cpc[c] = "waiting" /\ cpc'[c] # "waiting"

\* C1: for a Semaphore of capacity C the number of callers that have
\* acquired and not yet released never exceeds C, in any interleaving of
\* acquire and release.
C1_HoldersNeverExceedCapacity ==
    /\ Cardinality(HarnessOwners) <= gate.max
    /\ Cardinality(HarnessIn("holding")) <= gate.max

C1_Witness ==
    /\ Cardinality(HarnessIn("holding")) = gate.max
    /\ Len(gate.queue) > 0

\* C3: a release() with a non-empty wait queue wakes exactly one waiter, the
\* one at the head of the queue, and suspended callers are queued in the
\* order in which their acquire() suspended, so the longest waiter is woken.
C3_ReleaseWakesLongestWaiter ==
    [][ /\ \A c \in Callers :
              (ReleaseStep(c) /\ Len(gate.queue) > 0) =>
                  /\ {w \in Callers : LeavesQueue(w)} = {Head(gate.queue)}
                  /\ cpc'[Head(gate.queue)] = "woken"
                  /\ gate'.queue = Tail(gate.queue)
        /\ \A c \in Callers :
              (AcquireStep(c) /\ cpc'[c] = "waiting") =>
                  gate'.queue = Append(gate.queue, c)
        /\ \A w \in Callers :
              LeavesQueue(w) => \E c \in Callers : ReleaseStep(c)
      ]_vars

\* a waiter has just been woken while a later one is still queued
C3_Witness ==
    /\ HarnessIn("woken") # {}
    /\ Len(gate.queue) > 0
    /\ Cardinality(HarnessIn("holding")) = gate.max - 1

\* C4: acquire() completes without suspending exactly when fewer than C
\* slots are owned at the call, and then the holder count grows by one;
\* otherwise the caller goes to the tail of the wait queue and leaves it
\* only when a release() hands it a slot.
C4_AcquireImmediateIffBelowCapacity ==
    [][ /\ \A c \in Callers :
              AcquireStep(c) =>
                  IF Cardinality(HarnessOwners) < gate.max
                  THEN /\ cpc'[c] = "holding"
                       /\ gate'.count = gate.count + 1
                       /\ gate'.queue = gate.queue
                       /\ Cardinality(HarnessOwners') = Cardinality(HarnessOwners) + 1
                  ELSE /\ cpc'[c] = "waiting"
                       /\ gate'.queue = Append(gate.queue, c)
                       /\ gate'.count = gate.count
        /\ \A w \in Callers :
              LeavesQueue(w) =>
                  /\ cpc'[w] = "woken"
                  /\ \E c \in Callers : ReleaseStep(c)
      ]_vars

\* both outcomes of acquire() have happened: a holder got through at once
\* and a caller is suspended behind a full gate
C4_Witness ==
    /\ Cardinality(HarnessOwners) = gate.max
    /\ HarnessIn("holding") # {}
    /\ HarnessIn("waiting") # {}

\* C5: a release() with a non-empty wait queue hands the slot to the head
\* waiter: the count stays at C across the hand-off, and an acquire() made
\* while the woken waiter has not resumed suspends instead of taking the
\* waiter's slot.
C5_DirectHandOff ==
    [][ /\ \A c \in Callers :
              (ReleaseStep(c) /\ Len(gate.queue) > 0) =>
                  /\ gate.count = gate.max
                  /\ gate'.count = gate.max
                  /\ Head(gate.queue) \in HarnessOwners'
        /\ \A c \in Callers :
              ( /\ AcquireStep(c)
                /\ HarnessIn("woken") # {}
                /\ Cardinality(HarnessOwners) = gate.max ) =>
                  /\ cpc'[c] = "waiting"
                  /\ HarnessIn("woken") \subseteq HarnessIn("woken")'
      ]_vars

\* a caller is queued behind a full gate one of whose slots belongs to a
\* woken waiter that has not resumed yet
C5_Witness ==
    /\ HarnessIn("woken") # {}
    /\ gate.count = gate.max
    /\ Cardinality(HarnessIn("holding")) < gate.max
    /\ HarnessIn("waiting") # {}

(***************************************************************************)
(* Properties of the evaluation of one ticker, checked under EvalSpec.     *)
(***************************************************************************)
AllCountersZero(c) ==
    /\ c.callOpenLow = 0
    /\ c.callOpenHigh = 0
    /\ c.putOpenLow = 0
    /\ c.putOpenHigh = 0

WellFormed(settled) ==
    /\ settled.kind = "response"
    /\ settled.status = 200
    /\ recordsOf(settled).type = "array"
    /\ \A i \in 1..Len(recordsOf(settled).items) : ~IsNull(recordsOf(settled).items[i])

EvalRecords == recordsOf(evalIn.settled).items

\* a future-on-stock record at the target expiry with previous close > 0 and
\* 100 * (open - prevClose) / prevClose in [-0.5, +0.5], in exact arithmetic
RefEligibleRecord(rec) ==
    /\ Has(rec, "instrumentType") /\ rec.instrumentType = "FUTSTK"
    /\ Has(rec, "expiryDate") /\ rec.expiryDate = "27-Feb-2026"
    /\ Has(rec, "prevClose") /\ rec.prevClose > 0
    /\ LET open == IF Has(rec, "openPrice") THEN rec.openPrice ELSE 0
       IN  /\ 200 * (open - rec.prevClose) >= -rec.prevClose
           /\ 200 * (open - rec.prevClose) <= rec.prevClose

PassedGate == evalOut.status = "Success"

\* C12: a ticker passes the eligibility gate exactly when one of its records
\* is a future-on-stock record at the target expiry with previous close > 0
\* whose deviation 100 * (open - prevClose) / prevClose lies in [-0.5, +0.5],
\* both ends included.
C12_GateIsInclusiveWindow ==
    (evalOut # Pending /\ WellFormed(evalIn.settled)) =>
        (PassedGate <=> \E i \in 1..Len(EvalRecords) : RefEligibleRecord(EvalRecords[i]))

\* the side of an option record, whatever the case of its letters
SideOf(rec) ==
    IF ~Has(rec, "optionType") THEN "none"
    ELSE IF rec.optionType \in {"CE", "Ce", "cE", "ce"} THEN "call"
    ELSE IF rec.optionType \in {"PE", "Pe", "pE", "pe"} THEN "put"
    ELSE "none"

\* the reference count: the option-on-stock records of one side at the
\* target expiry with open > 0 and volume > 0 whose open equals rec[price]
RefCount(records, side, price) ==
    Cardinality({i \in 1..Len(records) :
        /\ Has(records[i], "instrumentType") /\ records[i].instrumentType = "OPTSTK"
        /\ Has(records[i], "expiryDate") /\ records[i].expiryDate = "27-Feb-2026"
        /\ SideOf(records[i]) = side
        /\ Has(records[i], "openPrice") /\ records[i].openPrice > 0
        /\ Has(records[i], "totalTradedVolume") /\ records[i].totalTradedVolume > 0
        /\ Has(records[i], price) /\ records[i][price] = records[i].openPrice})

\* C13: when the fetch succeeds and no record passes the eligibility gate
\* the classification is "FUTSTK condition not met" with all four counters
\* zero, however many option records match the counting rule.
C13_NotEligibleHasZeroCounters ==
    (evalOut # Pending /\ WellFormed(evalIn.settled)) =>
        /\ (\A i \in 1..Len(EvalRecords) : ~RefEligibleRecord(EvalRecords[i])) =>
               evalOut.status = "FUTSTK condition not met"
        /\ ~PassedGate =>
               /\ evalOut.status = "FUTSTK condition not met"
               /\ AllCountersZero(evalOut)

\* a ticker that failed the gate although one of its option records matches
\* the counting rule
C13_Witness ==
    /\ evalOut # Pending
    /\ WellFormed(evalIn.settled)
    /\ evalOut.status = "FUTSTK condition not met"
    /\ \E i \in 1..Len(EvalRecords) : StrOrEmpty(EvalRecords[i], "instrumentType") = "FUTSTK"
    /\ RefCount(EvalRecords, "call", "lowPrice") > 0

\* C14: for a ticker that passed the gate each counter is the reference
\* count over its records: calls opening at their low, calls opening at
\* their high, puts opening at their low, puts opening at their high.
C14_CountersAreReferenceCounts ==
    (evalOut # Pending /\ WellFormed(evalIn.settled) /\ PassedGate) =>
        /\ evalOut.callOpenLow = RefCount(EvalRecords, "call", "lowPrice")
        /\ evalOut.callOpenHigh = RefCount(EvalRecords, "call", "highPrice")
        /\ evalOut.putOpenLow = RefCount(EvalRecords, "put", "lowPrice")
        /\ evalOut.putOpenHigh = RefCount(EvalRecords, "put", "highPrice")

\* a put that opened at its low and its high counts once in each put counter
\* and in no call counter
C14_Witness ==
    /\ evalOut # Pending
    /\ PassedGate
    /\ \E i \in 1..Len(EvalRecords) :
          /\ SideOf(EvalRecords[i]) = "put"
          /\ Has(EvalRecords[i], "lowPrice") /\ Has(EvalRecords[i], "highPrice")
          /\ EvalRecords[i].lowPrice = EvalRecords[i].openPrice
          /\ EvalRecords[i].highPrice = EvalRecords[i].openPrice
    /\ evalOut.putOpenLow = 1
    /\ evalOut.putOpenHigh = 1
    /\ evalOut.callOpenLow = 0
    /\ evalOut.callOpenHigh = 0

(***************************************************************************)
(* Properties of the scan runs, checked under Spec.                        *)
(***************************************************************************)
FnoRuns == {r \in Runs : rcat[r] = "fno"}

\* a run between its start and its journal append
InProgress(r) == rpc[r] \in {"warmup", "universe", "fanout", "delay", "fetch"}

\* a run that has appended to its journal
Appended(r) == rpc[r] \in {"email", "returned"}

InFlight(r) == {i \in 1..Len(tpc[r]) : tpc[r][i] = "inflight"}

RECURSIVE SumOver(_, _)
SumOver(S, f) ==
    IF S = {} THEN 0
    ELSE LET x == CHOOSE y \in S : TRUE
         IN  f[x] + SumOver(S \ {x}, f)

\* C2: at any time at most one run of a category is between its start and
\* its journal append, whether a scheduler tick or a manual request started it.
C2_OneRunPerCategory ==
    \A c \in Categories :
        Cardinality({r \in Runs : rcat[r] = c /\ InProgress(r)}) <= 1

\* C6: the per-ticker requests in flight, summed over all runs in progress,
\* never exceed the capacity of the gate.
C6_InFlightWithinCapacity ==
    SumOver(Runs, [r \in Runs |-> Cardinality(InFlight(r))]) <= GateCapacity

SameRanking(a, b) ==
    /\ a.bullish = b.bullish
    /\ a.bearish = b.bearish
    /\ a.totalScannedSuccessfully = b.totalScannedSuccessfully
    /\ a.stocksMeetingConditions = b.stocksMeetingConditions

\* C7: for a fixed universe and fixed per-ticker responses the bullish list,
\* the bearish list, the scanned count and the qualified count of a run are
\* the same for every order in which the evaluations complete, and a run has
\* its result only after all of its evaluations have completed.
C7_RankingIndependentOfCompletionOrder ==
    /\ \A r1 \in FnoRuns, r2 \in FnoRuns :
          ( /\ Appended(r1)
            /\ Appended(r2)
            /\ symbols[r1] = symbols[r2] ) =>
              SameRanking(returned[r1], returned[r2])
    /\ \A r \in FnoRuns :
          returned[r] # Pending =>
              \A i \in 1..Len(tpc[r]) : tpc[r][i] = "done"

HasTie(list, key) ==
    \E i \in 1..Len(list), j \in 1..Len(list) : i # j /\ list[i][key] = list[j][key]

\* two runs over the same universe completed in different orders and there
\* is a tie in the ranking
C7_Witness ==
    \E r1 \in FnoRuns, r2 \in FnoRuns :
        /\ Appended(r1)
        /\ Appended(r2)
        /\ symbols[r1] = symbols[r2]
        /\ reordered[r1] # reordered[r2]
        /\ HasTie(returned[r1].bullish, "ceOL")

UniverseFailed(r) ==
    /\ ufetch[r] # Pending
    /\ (ufetch[r].kind = "error" \/ ufetch[r].status # 200)

UniverseFetched(r) ==
    /\ ufetch[r] # Pending
    /\ ufetch[r].kind = "response"
    /\ ufetch[r].status = 200

\* C8: when the universe request of runFnoScan throws or answers with a
\* status other than 200, the run rejects, no evaluation is started and the
\* FnO journal stays as it was: it holds one entry per run that appended.
C8_UniverseFailureIsFatal ==
    /\ [](\A r \in Runs :
            UniverseFailed(r) =>
                /\ rpc[r] = "rejected"
                /\ returned[r] = Pending
                /\ tpc[r] = <<>>
                /\ results[r] = <<>>
                /\ ~reordered[r])
    /\ [](Len(Entries(journal["fno"])) = Cardinality({r \in FnoRuns : Appended(r)}))
    /\ [][\A r \in Runs :
            (~UniverseFailed(r) /\ UniverseFailed(r)') => journal' = journal]_vars

\* a run was rejected on a failed universe request after another run had
\* appended its result
C8_Witness ==
    \E r \in FnoRuns :
        /\ UniverseFailed(r)
        /\ rpc[r] = "rejected"
        /\ Len(Entries(journal["fno"])) > 0

\* C9: once the universe is fetched the run waits for every evaluation and
\* then produces its ScanResult whatever evaluations fail: no evaluation
\* rejects, every failure is a status value, and the run does not reject.
C9_PerTickerFailuresAreData ==
    \A r \in FnoRuns :
        UniverseFetched(r) =>
            /\ rpc[r] # "rejected"
            /\ \A i \in 1..Len(results[r]) :
                  results[r][i] # Pending =>
                      /\ ~results[r][i].rejected
                      /\ results[r][i].symbol = symbols[r][i]
                      /\ Len(results[r][i].status) > 0
            /\ Appended(r) <=> (\A i \in 1..Len(tpc[r]) : tpc[r][i] = "done")
            /\ Appended(r) =>
                  /\ returned[r] # Pending
                  /\ returned[r].totalSymbols = Len(symbols[r])

\* a run returned its result although one evaluation hit malformed data and
\* another one succeeded
C9_Witness ==
    \E r \in FnoRuns :
        /\ rpc[r] = "returned"
        /\ \E i \in 1..Len(results[r]) :
              results[r][i].status = "Error: records.some is not a function"
        /\ \E i \in 1..Len(results[r]) : results[r][i].status = "Success"
        /\ returned[r].stocksMeetingConditions = 1

(***************************************************************************)
(* Properties of the aggregation, checked under RankSpec.                  *)
(***************************************************************************)
Resolved(i) == rankIn.resolved[i]

Tickers == 1..Len(rankIn.resolved)

WithStatus(statuses) == {i \in Tickers : Resolved(i).status \in statuses}

ListedSymbols(list) == {list[j].symbol : j \in 1..Len(list)}

\* C11: totalScannedSuccessfully is the number of tickers whose status is
\* Success or "FUTSTK condition not met", stocksMeetingConditions the number
\* whose status is Success; a ticker with an HTTP, Timeout or Error status is
\* counted in neither and is in neither ranked list.
C11_TotalsExcludeFailures ==
    rankOut # Pending =>
        /\ rankOut.totalScannedSuccessfully =
               Cardinality(WithStatus({"Success", "FUTSTK condition not met"}))
        /\ rankOut.stocksMeetingConditions = Cardinality(WithStatus({"Success"}))
        /\ rankOut.totalSymbols = Len(rankIn.universe)
        /\ \A i \in Tickers \ WithStatus({"Success", "FUTSTK condition not met"}) :
              /\ Resolved(i).symbol \notin ListedSymbols(rankOut.bullish)
              /\ Resolved(i).symbol \notin ListedSymbols(rankOut.bearish)

\* a qualified ticker, one that did not meet the condition and one that
\* timed out: scanned 2, qualified 1
C11_Witness ==
    /\ rankOut # Pending
    /\ WithStatus({"Timeout"}) # {}
    /\ WithStatus({"HTTP 500"}) = {}
    /\ Len(rankIn.resolved) = 3
    /\ rankOut.totalScannedSuccessfully = 2
    /\ rankOut.stocksMeetingConditions = 1

Descending(list, key) ==
    \A j \in 1..(Len(list) - 1) : list[j][key] >= list[j + 1][key]

StrictlyDescending(list, key) ==
    \A j \in 1..(Len(list) - 1) : list[j][key] > list[j + 1][key]

\* C15 as stated: the bullish list is in strictly descending order of ceOL
\* and the bearish list in strictly descending order of peOL.
C15_StrictlyDescending ==
    rankOut # Pending =>
        /\ StrictlyDescending(rankOut.bullish, "ceOL")
        /\ StrictlyDescending(rankOut.bearish, "peOL")

\* C15: the bullish list is in descending order of ceOL and the bearish
\* list in descending order of peOL, from first to last entry; entries with
\* equal counts are adjacent.
C15_Descending ==
    rankOut # Pending =>
        /\ Descending(rankOut.bullish, "ceOL")
        /\ Descending(rankOut.bearish, "peOL")

\* a bullish list that falls and has a tie, from a universe that is not in
\* that order
C15_Witness ==
    /\ rankOut # Pending
    /\ Len(rankOut.bullish) >= 3
    /\ rankOut.bullish[1].ceOL > rankOut.bullish[Len(rankOut.bullish)].ceOL
    /\ ~StrictlyDescending(rankOut.bullish, "ceOL")
    /\ \E i \in Tickers, j \in Tickers :
          /\ i < j
          /\ Resolved(i).status = "Success" /\ Resolved(j).status = "Success"
          /\ Resolved(i).callOpenLow < Resolved(j).callOpenLow

Qualified == WithStatus({"Success"})

Smaller(a, b) == IF a < b THEN a ELSE b

\* C16: each ranked list has at most 10 entries, all of them qualified
\* tickers, as many as there are up to 10, and no qualified ticker left out
\* of a list has a greater count than a ticker in it.
C16_TopTenOfQualified ==
    rankOut # Pending =>
        /\ Len(rankOut.bullish) = Smaller(10, Cardinality(Qualified))
        /\ Len(rankOut.bearish) = Smaller(10, Cardinality(Qualified))
        /\ ListedSymbols(rankOut.bullish) \subseteq {Resolved(i).symbol : i \in Qualified}
        /\ ListedSymbols(rankOut.bearish) \subseteq {Resolved(i).symbol : i \in Qualified}
        /\ Cardinality(ListedSymbols(rankOut.bullish)) = Len(rankOut.bullish)
        /\ Cardinality(ListedSymbols(rankOut.bearish)) = Len(rankOut.bearish)
        /\ \A i \in Qualified :
              Resolved(i).symbol \notin ListedSymbols(rankOut.bullish) =>
                  \A j \in 1..Len(rankOut.bullish) :
                      Resolved(i).callOpenLow <= rankOut.bullish[j].ceOL
        /\ \A i \in Qualified :
              Resolved(i).symbol \notin ListedSymbols(rankOut.bearish) =>
                  \A j \in 1..Len(rankOut.bearish) :
                      Resolved(i).putOpenLow <= rankOut.bearish[j].peOL

\* twelve qualified tickers: ten are listed, and one with a smaller count
\* is left out although it precedes a listed one in the universe
C16_Witness ==
    /\ rankOut # Pending
    /\ Cardinality(Qualified) = 12
    /\ Len(rankOut.bullish) = 10
    /\ \E i \in Qualified, j \in Qualified :
          /\ i < j
          /\ Resolved(i).symbol \notin ListedSymbols(rankOut.bullish)
          /\ Resolved(j).symbol \in ListedSymbols(rankOut.bullish)
          /\ Resolved(i).callOpenLow < Resolved(j).callOpenLow

\* C34: in every ScanResult of runFnoScan the qualified tickers are among
\* the scanned ones and these among the universe:
\* 0 <= stocksMeetingConditions <= totalScannedSuccessfully <= totalSymbols;
\* and both lists have min(10, stocksMeetingConditions) entries
C34_CountersOrdered ==
    rankOut # Pending =>
        /\ 0 <= rankOut.stocksMeetingConditions
        /\ rankOut.stocksMeetingConditions <= rankOut.totalScannedSuccessfully
        /\ rankOut.totalScannedSuccessfully <= rankOut.totalSymbols
        /\ rankOut.totalSymbols = Len(rankIn.resolved)
        /\ Len(rankOut.bullish) = Smaller(10, rankOut.stocksMeetingConditions)
        /\ Len(rankOut.bearish) = Smaller(10, rankOut.stocksMeetingConditions)

\* a result in which some tickers failed, some were scanned without
\* qualifying, and fewer than ten qualified
C34_Witness ==
    /\ rankOut # Pending
    /\ 0 < rankOut.stocksMeetingConditions
    /\ rankOut.stocksMeetingConditions < rankOut.totalScannedSuccessfully
    /\ rankOut.totalScannedSuccessfully < rankOut.totalSymbols
    /\ Len(rankOut.bullish) = rankOut.stocksMeetingConditions
    /\ Len(rankOut.bullish) < 10

TickerOf(symbol) == CHOOSE i \in Tickers : Resolved(i).symbol = symbol

\* C18: a bullish entry carries the symbol, the call-open-low and the
\* put-open-high counter of its ticker's own evaluation, a bearish entry the
\* symbol, the put-open-low and the call-open-high counter.
C18_EntriesCarryOwnCounters ==
    rankOut # Pending =>
        /\ \A j \in 1..Len(rankOut.bullish) :
              LET entry == rankOut.bullish[j]
              IN  /\ DOMAIN entry = {"symbol", "ceOL", "peOH"}
                  /\ entry.symbol \in {Resolved(i).symbol : i \in Qualified}
                  /\ entry.ceOL = Resolved(TickerOf(entry.symbol)).callOpenLow
                  /\ entry.peOH = Resolved(TickerOf(entry.symbol)).putOpenHigh
        /\ \A j \in 1..Len(rankOut.bearish) :
              LET entry == rankOut.bearish[j]
              IN  /\ DOMAIN entry = {"symbol", "peOL", "ceOH"}
                  /\ entry.symbol \in {Resolved(i).symbol : i \in Qualified}
                  /\ entry.peOL = Resolved(TickerOf(entry.symbol)).putOpenLow
                  /\ entry.ceOH = Resolved(TickerOf(entry.symbol)).callOpenHigh

\* a listed ticker whose call counters differ, one whose put counters
\* differ, and two bullish entries with different put-open-high counters
C18_Witness ==
    /\ rankOut # Pending
    /\ \E j \in 1..Len(rankOut.bullish), k \in 1..Len(rankOut.bearish) :
          /\ rankOut.bullish[j].symbol = rankOut.bearish[k].symbol
          /\ rankOut.bullish[j].ceOL # rankOut.bearish[k].ceOH
    /\ \E j \in 1..Len(rankOut.bullish), k \in 1..Len(rankOut.bearish) :
          /\ rankOut.bullish[j].symbol = rankOut.bearish[k].symbol
          /\ rankOut.bullish[j].peOH # rankOut.bearish[k].peOL
    /\ \E j \in 1..Len(rankOut.bullish), k \in 1..Len(rankOut.bullish) :
          rankOut.bullish[j].peOH # rankOut.bullish[k].peOH

(***************************************************************************)
(* Properties of the ranking inside a run, checked under Spec.             *)
(***************************************************************************)
PositionIn(seq, x) == CHOOSE i \in 1..Len(seq) : seq[i] = x

Alphabetical(universe) ==
    \A i \in 1..Len(universe), j \in 1..Len(universe) :
        i < j => PositionIn(TickerPool, universe[i]) < PositionIn(TickerPool, universe[j])

TiesInUniverseOrder(list, key, universe) ==
    \A j \in 1..Len(list), k \in 1..Len(list) :
        (j < k /\ list[j][key] = list[k][key]) =>
            PositionIn(universe, list[j].symbol) < PositionIn(universe, list[k].symbol)

\* C17: the universe of a run is sorted, and qualified tickers that tie on
\* the ranking key appear in the ranked list in the order of the universe,
\* whichever evaluation finished first.
C17_TiesKeepUniverseOrder ==
    \A r \in FnoRuns :
        returned[r] # Pending =>
            /\ Alphabetical(symbols[r])
            /\ TiesInUniverseOrder(returned[r].bullish, "ceOL", symbols[r])
            /\ TiesInUniverseOrder(returned[r].bearish, "peOL", symbols[r])

\* a run whose evaluations finished out of order returned lists with ties
C17_Witness ==
    \E r \in FnoRuns :
        /\ Appended(r)
        /\ reordered[r]
        /\ Len(symbols[r]) >= 3
        /\ HasTie(returned[r].bullish, "ceOL")
        /\ HasTie(returned[r].bearish, "peOL")

(***************************************************************************)
(* Properties of the journal, checked under JournalSpec.                   *)
(***************************************************************************)
Journal == journal[jcall.cat]

\* C19: after any sequence of appends a journal holds at most 30 entries,
\* the most recently appended results, newest first; 31 appends to an empty
\* journal leave the results 2..31 with result 31 at the head.
C19_JournalKeepsNewestThirty ==
    isArray(loadResults(Journal)) =>
        /\ Len(Entries(Journal)) <= 30
        /\ Len(Entries(Journal)) = Smaller(30, jcall.n + jcall.had)
        /\ \A i \in 1..Len(Entries(Journal)) : Entries(Journal)[i].id = jcall.n + 1 - i
        /\ (jcall.op = "append" /\ ~jcall.threw) =>
               jcall.value = JsArray(Entries(Journal))

\* 31 results were appended to an empty journal: the results 31 down to 2
\* are left
C19_Witness ==
    /\ jcall.n = 31
    /\ jcall.had = 0
    /\ jcall.op = "append"
    /\ Len(Entries(Journal)) = 30
    /\ Entries(Journal)[1].id = 31
    /\ Entries(Journal)[30].id = 2

\* the file is absent, does not parse, or parses to something that is not
\* an array
MissingOrCorrupt(file) ==
    \/ ~file.exists
    \/ ~file.text.valid
    \/ IsNull(file.text.value)
    \/ file.text.value.type # "array"

\* C20: a missing or corrupt backing store is an empty journal to load,
\* append and get: none of them fails, and a scan run that reaches its
\* append completes and returns its ScanResult.
C20_CorruptStoreIsEmptyJournal ==
    /\ jcall.op # "none" => ~jcall.threw
    /\ (jcall.op = "list" /\ MissingOrCorrupt(Journal)) => jcall.value = JsArray(<<>>)
    /\ (jcall.op = "get" /\ MissingOrCorrupt(Journal)) => jcall.value.status = 404
    /\ (jcall.op = "scan" /\ jcall.n = 1 /\ jcall.had = 0) =>
           /\ jcall.value = StoredResult(1)
           /\ Entries(Journal) = <<StoredResult(1)>>

\* the file is absent or cannot be read as JSON
MissingOrUnreadable(file) == ~file.exists \/ ~file.text.valid

\* C35: an append that finds the store missing or unreadable writes a
\* journal that holds the new result and nothing else, and that journal is
\* what a load returns afterwards
C35_AppendStartsAnew ==
    [][(MissingOrUnreadable(Journal) /\ jcall'.op \in {"append", "scan"})
       => /\ ~jcall'.threw
          /\ journal'[jcall.cat] = FileWith(JSONstringify(JsArray(<<StoredResult(jcall'.n)>>)))
          /\ listResults(journal'[jcall.cat]) = JsArray(<<StoredResult(jcall'.n)>>)
          /\ getResult(journal'[jcall.cat], jcall'.n).status = 200]_vars

\* the first result was appended to a store that held nothing to load, and
\* the list that was loaded afterwards holds that result alone
C35_Witness ==
    /\ jcall.had = 0
    /\ jcall.n = 1
    /\ jcall.op = "list"
    /\ jcall.value = JsArray(<<StoredResult(1)>>)
    /\ Journal = FileWith(JSONstringify(JsArray(<<StoredResult(1)>>)))

\* the entries of the journal that a file stands for; a store that holds
\* no array stands for the empty journal
JournalEntries(file) == IF isArray(loadResults(file)) THEN Entries(file) ELSE <<>>

\* C22: a lookup by id returns the journal entry that has the id when there
\* is one, reports a miss (404), no error, when there is none, the empty
\* journal included, and leaves the journal as it is.
C22_LookupFindsOrMisses ==
    [][\A id \in GetIds :
          CallGet(id) =>
              /\ journal' = journal
              /\ IF \E i \in 1..Len(JournalEntries(Journal)) :
                        JournalEntries(Journal)[i].id = id
                 THEN /\ jcall'.value.status = 200
                      /\ jcall'.value.result.id = id
                      /\ \E i \in 1..Len(JournalEntries(Journal)) :
                            JournalEntries(Journal)[i] = jcall'.value.result
                 ELSE jcall'.value.status = 404]_vars

\* C27: an append changes neither the content nor the order of the results
\* journaled before that stay in the journal: the journal afterwards is the
\* new result followed by the former entries, cut behind position 30.
C27_AppendKeepsOlderResults ==
    [][\A c \in Categories :
          journal'[c] # journal[c] =>
              /\ Len(Entries(journal'[c])) = Smaller(Len(Entries(journal[c])) + 1, 30)
              /\ Entries(journal'[c])[1] = StoredResult(jcall'.n)
              /\ \A i \in 2..Len(Entries(journal'[c])) :
                    Entries(journal'[c])[i] = Entries(journal[c])[i - 1]]_vars

\* an append to a full journal that holds results found at the start: the
\* older of them was dropped, the other one is the last entry
C27_Witness ==
    /\ jcall.op = "append"
    /\ jcall.had = 2
    /\ jcall.n = 29
    /\ Len(Entries(Journal)) = 30
    /\ Entries(Journal)[30] = StoredResult(0)
    /\ Entries(Journal)[1] = StoredResult(29)

\* C36: GET /api/<category>/download/csv/all on a journal that is not empty
\* is handled by the handler of download/csv/all and answered with the CSV
\* of every result of the journal
C36_AllServedByAllHandler ==
    [][(CallDownload("all") /\ JournalEntries(Journal) # <<>>)
       => /\ jcall'.value.handler = "download/csv/all"
          /\ jcall'.value.status = 200
          /\ jcall'.value.results = JournalEntries(Journal)]_vars

(***************************************************************************)
(* Every ticker of the universe of a run is evaluated once.                *)
(***************************************************************************)
Evaluations(r) == 1..Len(tpc[r])

\* C28: within one runFnoScan every entry of the fetched universe is
\* evaluated exactly once.  There is one evaluation per entry; its request is
\* issued once and never again after it settled; an evaluation that is done
\* holds one classification, that of its ticker, with one status, and keeps
\* it; totalSymbols is the number of classifications.
C28_EveryTickerEvaluatedOnce ==
    /\ [](\A r \in FnoRuns :
            /\ UniverseFetched(r) =>
                  /\ Len(tpc[r]) = Len(symbols[r])
                  /\ Len(results[r]) = Len(symbols[r])
            /\ \A i \in Evaluations(r) :
                  /\ tpc[r][i] = "done" <=> results[r][i] # Pending
                  /\ results[r][i] # Pending =>
                        /\ results[r][i].symbol = symbols[r][i]
                        /\ Len(results[r][i].status) > 0
            /\ Appended(r) =>
                  /\ \A i \in Evaluations(r) : tpc[r][i] = "done"
                  /\ returned[r].totalSymbols = Len(results[r]))
    /\ [][\A r \in Runs : \A i \in Evaluations(r) :
            /\ tpc[r][i] = "done" =>
                  /\ tpc'[r][i] = "done"
                  /\ results'[r][i] = results[r][i]
            /\ tpc[r][i] = "inflight" => tpc'[r][i] \in {"inflight", "done"}]_vars

\* a run returned its result with the classification of a request that
\* timed out among those of its tickers
C28_Witness ==
    \E r \in FnoRuns :
        /\ rpc[r] = "returned"
        /\ Len(results[r]) >= 3
        /\ returned[r].totalSymbols = Len(results[r])
        /\ \E i \in Evaluations(r) : results[r][i].status = "Timeout"
        /\ \E i \in Evaluations(r) : results[r][i].status = "Success"

(***************************************************************************)
(* Properties of the runs and their journals, checked under Spec, where    *)
(* the journals are empty at the start and every write succeeds.           *)
(***************************************************************************)
RunsOf(c) == {r \in Runs : rcat[r] = c}

\* the runs of category c that have completed their append
Completed(c) == {r \in RunsOf(c) : Appended(r)}

\* C30: each invocation of runFnoScan or runLosersOHScan appends at most one
\* entry to the journal of its category, on every path through the run: a
\* journal never holds more entries than runs of its category have reached
\* their append.
C30_AtMostOneAppendPerRun ==
    \A c \in Categories :
        Len(Entries(journal[c])) <= Cardinality(Completed(c))

\* C29: the appends of overlapping runs of a category do not interfere: once
\* k runs have completed their appends on a journal that held n entries (n
\* is 0 here), the journal holds min(n + k, 30) entries, the result of each
\* of the k runs among them.
C29_NoLostUpdate ==
    \A c \in Categories :
        /\ Len(Entries(journal[c])) = Smaller(Cardinality(Completed(c)), JournalCap)
        /\ \A r \in Completed(c) :
              \E i \in 1..Len(Entries(journal[c])) : Entries(journal[c])[i] = returned[r]

\* C33: when the request of runLosersOHScan fails, the run does not reject;
\* it returns a result with totalFOSecStocks 0, qualifiedStocks 0, no stocks
\* and an error, and that result is what it appends to the losers journal
C33_FailedRequestIsJournaled ==
    [][\A r \in Runs, settled \in LosersSettlements :
          (LosersSettled(r, settled) /\ settled.kind = "error")
          => /\ rpc'[r] = "returned"
             /\ returned'[r].totalFOSecStocks = 0
             /\ returned'[r].qualifiedStocks = 0
             /\ returned'[r].stocks = <<>>
             /\ Has(returned'[r], "error")
             /\ Len(returned'[r].error) > 0
             /\ Entries(journal'["losers"])
                  = <<returned'[r]>> \o Entries(journal["losers"])
             /\ journal'["fno"] = journal["fno"]]_vars

\* a losers run whose request was answered with 403 has returned the error
\* result that heads the journal, above the result of an earlier run
C33_Witness ==
    \E r \in RunsOf("losers") :
        /\ rpc[r] = "returned"
        /\ Has(returned[r], "error")
        /\ returned[r].error = "Access blocked by NSE"
        /\ Len(Entries(journal["losers"])) = 2
        /\ Entries(journal["losers"])[1] = returned[r]
        /\ ~Has(Entries(journal["losers"])[2], "error")

(***************************************************************************)
(* Properties of the last block of a run under a clock and a failing disk, *)
(* checked under FinishSpec.                                               *)
(***************************************************************************)
\* the block appends once and its write fails: the file holds what unshift
\* can be called on, and the rendering of the mail does not throw
WriteFails(content, disks) ==
    /\ disks[1] # Written
    /\ isArray(loadResults(journal[jcall.cat]))
    /\ ~(jcall.cat = "losers" /\ emailEnabled /\ csvThrows(content))

\* C21: when the write of the journal fails during the append of a run, the
\* run does not fail, it returns its ScanResult, and the journal file is
\* left as it was before the append
C21_FailedWriteLeavesJournal ==
    [][\A content \in FinishContents(jcall.cat), disks \in DiskOutcomes \X DiskOutcomes,
          later \in {now, now + 1} :
            (FinishRun(content, disks, later) /\ WriteFails(content, disks))
            => /\ ~jcall'.threw
               /\ jcall'.value = Stamp(now) @@ content
               /\ journal' = journal]_vars

\* C23: any two results held in the journal of a category have different ids
C23_IdsUnique ==
    \A c \in Categories :
        isArray(loadResults(journal[c]))
        => \A i, j \in 1..Len(Entries(journal[c])) :
              i # j => Entries(journal[c])[i].id # Entries(journal[c])[j].id

(***************************************************************************)
(* Properties of the scheduler, checked under SchedSpec.                   *)
(***************************************************************************)
\* the trigger times of a category (lines 407-416)
TriggerTimes(cat) ==
    IF cat = "fno" THEN FNO_SCAN_TIMES_IST ELSE {LOSERS_SCAN_TIME_IST}

HourMinute(t) == [h |-> getISTHoursMinutes(t).h, m |-> getISTHoursMinutes(t).m]

\* the scans of the category among the calls from the k-th on
CallsFrom(calls, k, cat) == {i \in k..Len(calls) : calls[i].cat = cat}

\* C24: a tick on a Saturday or Sunday (IST) calls no scan; a tick from
\* Monday to Friday calls one scan of every category that has the hour and
\* minute of the tick among its trigger times, and none of any other
C24_TickCallsByDayAndTime ==
    [][sched'.ticks = sched.ticks + 1
       => LET t == getISTHoursMinutes(now')
              first == Len(sched.calls) + 1
          IN  /\ t.day \in {0, 6} => sched'.calls = sched.calls
              /\ t.day \in 1..5
                 => \A cat \in Categories :
                       Cardinality(CallsFrom(sched'.calls, first, cat))
                         = IF [h |-> t.h, m |-> t.m] \in TriggerTimes(cat) THEN 1 ELSE 0]_vars

\* a Friday tick inside 09:20 IST called one scan, of category fno
C24_Witness ==
    /\ now \in istTime(2, 9, 20, 0)..istTime(2, 9, 20, 59)
    /\ sched.ticks > 0
    /\ sched.calls # <<>>
    /\ sched.calls[Len(sched.calls)] = [cat |-> "fno", at |-> now]
    /\ CallsFrom(sched.calls, 1, "losers") = {}

\* the minute, counted from the epoch, in which a call was made
MinuteOf(call) == call.at \div 60000

\* C25: a scan is called only by a tick inside a trigger minute of its
\* category, so a trigger minute that no tick lands in is not made up for
\* later; and no trigger minute has two calls of its category
C25_OnlyInsideTriggerMinute ==
    /\ \A i \in 1..Len(sched.calls) :
          /\ HourMinute(sched.calls[i].at) \in TriggerTimes(sched.calls[i].cat)
          /\ sched.calls[i].at <= now
    /\ \A i, j \in 1..Len(sched.calls) :
          (i # j /\ sched.calls[i].cat = sched.calls[j].cat)
          => MinuteOf(sched.calls[i]) # MinuteOf(sched.calls[j])

\* on a Friday no tick landed inside 09:17 IST: at 09:20 and later the scan
\* of 09:17 was not called, those of 09:18 and later were
C25_Witness ==
    /\ now >= istTime(2, 9, 20, 0)
    /\ now < istTime(3, 0, 0, 0)
    /\ \A i \in 1..Len(sched.calls) :
          sched.calls[i].at \notin istTime(2, 9, 17, 0)..istTime(2, 9, 17, 59)
    /\ \E i \in 1..Len(sched.calls) :
          sched.calls[i].at \in istTime(2, 9, 18, 0)..istTime(2, 9, 18, 59)
    /\ \E i \in 1..Len(sched.calls) : sched.calls[i].at = now

\* C26: whichever way the runs that the scheduler called settle, the
\* process lives and the timer is armed, so that the next tick is due; the
\* step in which a run settles changes nothing but the log of errors
C26_RejectionOnlyLogged ==
    /\ [](/\ sched.alive
          /\ sched.ticks < MaxTicks => \A drift \in Drifts : ENABLED TimerFires(drift))
    /\ [][sched'.pending < sched.pending
          => /\ sched'.ticks = sched.ticks
             /\ sched'.calls = sched.calls
             /\ now' = now]_vars

\* after a run rejected, later ticks called scans of both categories
C26_Witness ==
    /\ sched.logged # <<>>
    /\ \E i, j \in 1..Len(sched.calls) :
          /\ sched.calls[i].cat = "fno"
          /\ sched.calls[j].cat = "losers"
          /\ sched.calls[i].at > sched.logged[1]
          /\ sched.calls[j].at > sched.logged[1]

(***************************************************************************)
(* Properties of one run of runFnoScan and its gate, checked under         *)
(* ScanSpec and FairScanSpec.                                              *)
(***************************************************************************)
\* the evaluations of a run that stand at a given place
EvaluationsAt(r, place) == {i \in Evaluations(r) : tpc[r][i] = place}

\* the evaluations that are past acquire() or on its queue
Admitted(s) == s.count + Len(s.queue)

\* C31: every evaluation that is past acquire() calls release() once when
\* its request has settled, however it settled: the count of the gate is
\* never negative and is the number of evaluations between acquire() and
\* release(), the queue holds the evaluations suspended in acquire(), an
\* evaluation that finishes takes one off the gate, and the gate of a run
\* whose evaluations are all done has count 0 and an empty queue
C31_AcquireReleasePaired ==
    /\ [](\A r \in Runs :
            /\ sem[r].count >= 0
            /\ sem[r].count = Cardinality(EvaluationsAt(r, "inflight"))
            /\ Len(sem[r].queue) = Cardinality(EvaluationsAt(r, "waiting"))
            /\ Range(sem[r].queue) = EvaluationsAt(r, "waiting")
            /\ EvaluationsAt(r, "done") = Evaluations(r)
               => sem[r].count = 0 /\ sem[r].queue = <<>>)
    /\ [][\A r \in Runs :
            \A i \in Evaluations(r) :
                (tpc[r][i] = "inflight" /\ tpc'[r][i] = "done")
                => Admitted(sem'[r]) = Admitted(sem[r]) - 1]_vars

\* a run over more tickers than the gate admits has returned; its
\* evaluations ended on the not-eligible return, on the non-200 return and on
\* the success path
C31_Witness ==
    /\ rpc[1] = "returned"
    /\ Len(tpc[1]) > GateCapacity
    /\ sem[1].max = GateCapacity
    /\ sem[1].count = 0
    /\ \E i, j, k \in Evaluations(1) :
          /\ results[1][i].status = "FUTSTK condition not met"
          /\ results[1][j].status = "HTTP 404"
          /\ results[1][k].status = "Success"

\* no request for a ticker stays in flight for ever: it completes or runs
\* into its timeout (line 152)
RequestsSettle ==
    \A i \in 1..NumTickers : []<>(i \notin EvaluationsAt(1, "inflight"))

\* C32: provided every request for a ticker settles, every evaluation that
\* is suspended in acquire() is granted its slot, and a run that fetched its
\* universe appends its ScanResult and returns it
C32_WaitersGrantedRunReturns ==
    RequestsSettle
    => /\ \A i \in 1..NumTickers :
             (i \in EvaluationsAt(1, "waiting"))
             ~> (i \in EvaluationsAt(1, "inflight") \cup EvaluationsAt(1, "done"))
       /\ UniverseFetched(1)
          ~> /\ rpc[1] = "returned"
             /\ returned[1] # Pending
             /\ isArray(loadResults(journal["fno"]))
             /\ Entries(journal["fno"])[1] = returned[1]

\* a run over more tickers than the gate admits has returned the result
\* that heads the journal; its last evaluation had to wait for a slot
C32_Witness ==
    /\ rpc[1] = "returned"
    /\ emailEnabled
    /\ Len(tpc[1]) > GateCapacity
    /\ tpc[1][Len(tpc[1])] = "done"
    /\ reordered[1]
    /\ Entries(journal["fno"])[1] = returned[1]
    /\ Len(Entries(journal["fno"])) = 2

====
